---- MODULE Spec2Model ----
(***************************************************************************)
(* A model of proc-ctl: PortQuery (the builder, execute, the three         *)
(* platform table readers and the Windows table load), ProcQuery (children *)
(* and list_processes on the shared SYS_HANDLE, alone and from concurrent  *)
(* threads), the retry wrappers in both forms, and the command-line        *)
(* program.                                                                *)
(***************************************************************************)
EXTENDS Integers, Sequences, FiniteSets, TLC

VARIABLES
    \* the port query
    platform,    \* the target_os the crate was built for
    query,       \* the PortQuery under construction
    sockets,     \* the socket table of the OS when execute() ran, in table order
    pc,          \* "build" until execute() has returned, then "done"
    reads,       \* the table reads / lsof runs execute() made, in order
    result,      \* what execute() returned
    failed,      \* history: the read of execute() that failed, 0 when none did
    \* the process query
    os_procs,    \* the processes alive in the operating system
    sys,         \* SYS_HANDLE: whether it is constructed, and its snapshot
    lock,        \* whether the Mutex around the snapshot is held
    pquery,      \* the ProcQuery under construction
    ppc,         \* where children() is
    target,      \* the pid children() resolved
    refreshed_at,\* history: the OS process table when children() refreshed
    presult,     \* what children() returned
    \* a retry call
    rform,       \* "sync" (retry::retry) or "async" (the recursive async fn)
    rop,         \* the single-shot operation: "execute" or "children"
    rcount,      \* the count argument
    rdelay,      \* the delay argument
    rleft,       \* delays left in the iterator / count of the current call
    rpc,         \* "attempt", "sleep" or "done"
    rlog,        \* history: the attempts and sleeps so far, in order
    rresult,     \* what the retry call returned
    \* the two retry forms side by side
    pair,        \* both forms of one retry call, and the outcomes they share
    \* a chain of builder calls
    chain,       \* the PortQuery a chain of calls built, and the calls made
    \* concurrent callers of the process query
    cell,        \* SYS_HANDLE, the OnceLock: its state and what it has stored
    callers,     \* per thread: the call it is in and where it is in it
    \* list_processes
    asked,       \* history: the name the caller passed to process_name, if any
    \* the command-line program
    cli,         \* its argument, where main is, what it printed, its exit code
    \* one Windows table load
    load,        \* load_tcp_table / load_udp_table: its locals and the API replies
    \* one run of a macOS parser
    scan         \* find_ports_v4 / find_ports_v6: its arguments and its locals

portVars == <<platform, query, sockets, pc, reads, result, failed>>
procVars == <<os_procs, sys, lock, pquery, ppc, target, refreshed_at, presult>>
retryVars == <<rform, rop, rcount, rdelay, rleft, rpc, rlog, rresult>>
concVars == <<cell, callers>>
vars == <<portVars, procVars, retryVars, pair, chain, concVars, asked, cli, load, scan>>

\* what the actions of one part leave alone
notPort == <<procVars, retryVars, pair, chain, concVars, asked, cli, load, scan>>
notProc == <<portVars, retryVars, pair, chain, concVars, asked, cli, load, scan>>
notRetry == <<portVars, procVars, pair, chain, concVars, asked, cli, load, scan>>
notPair == <<portVars, procVars, retryVars, chain, concVars, asked, cli, load, scan>>
notChain == <<portVars, procVars, retryVars, pair, concVars, asked, cli, load, scan>>
notConc == <<portVars, retryVars, pair, chain, pquery, ppc, target, refreshed_at, presult, asked, cli, load, scan>>
notList == <<query, sockets, pc, reads, result, failed, platform, retryVars, pair, chain, concVars, cli, load, scan>>
notCli == <<procVars, retryVars, pair, chain, concVars, asked, load, scan>>
notLoad == <<portVars, procVars, retryVars, pair, chain, concVars, asked, cli, scan>>
notScan == <<portVars, procVars, retryVars, pair, chain, concVars, asked, cli, load>>

----------------------------------------------------------------------------
(* Bounds of the model *)

MaxSockets == 2
MaxFaultSockets == 1
MaxMin == 2
MaxProcs == 2
MaxMinChildren == 2
MaxCount == 3
MaxCalls == 4
MaxTableSize == 3
MaxPieces == 3

(* The pids that own sockets and that a query can name *)
Pids == {1, 2}

(* The local port of the socket in row i of the socket table *)
BasePort == 80

----------------------------------------------------------------------------
(* Option<T> *)

None == [some |-> FALSE, val |-> 0]
Some(v) == [some |-> TRUE, val |-> v]

(* ProtocolPort *)
Tcp(port) == [tag |-> "Tcp", port |-> port]
Udp(port) == [tag |-> "Udp", port |-> port]

(* ProcCtlResult<Vec<ProtocolPort>> *)
Ok(ports) == [kind |-> "Ok", ports |-> ports, num |-> 0]
ConfigurationError == [kind |-> "ConfigurationError", ports |-> <<>>, num |-> 0]
ProcessError == [kind |-> "ProcessError", ports |-> <<>>, num |-> 0]
TooFewPorts(ports, num) == [kind |-> "TooFewPorts", ports |-> ports, num |-> num]
NotReturned == [kind |-> "NotReturned", ports |-> <<>>, num |-> 0]

U16 == 65536

----------------------------------------------------------------------------
(* Sequence helpers *)

\* the f(row) of the rows of s that satisfy keep(row), in order
SelectMap(s, keep(_), f(_)) ==
    LET sel == SelectSeq(s, keep) IN [i \in 1..Len(sel) |-> f(sel[i])]

SeqRange(s) == {s[i] : i \in 1..Len(s)}

----------------------------------------------------------------------------
(* The socket table of the operating system.  A row is one socket: the pid *)
(* that holds it, its protocol, address family, state, whether it is bound *)
(* to the wildcard address, its local port and its kernel inode.           *)

SocketKinds ==
    { [proto |-> "tcp", family |-> 4, state |-> "Listen", wild |-> FALSE],
      [proto |-> "tcp", family |-> 4, state |-> "Established", wild |-> FALSE],
      [proto |-> "tcp", family |-> 6, state |-> "Listen", wild |-> FALSE],
      [proto |-> "tcp", family |-> 6, state |-> "Listen", wild |-> TRUE],
      [proto |-> "udp", family |-> 4, state |-> "Close", wild |-> FALSE],
      [proto |-> "udp", family |-> 6, state |-> "Close", wild |-> FALSE] }

Row(i, pid, k) ==
    [pid |-> pid, proto |-> k.proto, family |-> k.family, state |-> k.state,
     wild |-> k.wild, port |-> BasePort + i, inode |-> i, fd_err |-> FALSE]

\* the table when reading the entry of socket i in /proc/<pid>/fd fails
\* (i = 0: every entry is read)
FdErr(socks, i) == IF i = 0 THEN socks ELSE [socks EXCEPT ![i].fd_err = TRUE]

SocketTables ==
    UNION { { [i \in 1..n |-> Row(i, owner[i], kind[i])] :
                owner \in [1..n -> Pids], kind \in [1..n -> SocketKinds] } :
            n \in 0..MaxSockets }

\* the rows of one kernel table (tcp, tcp6, udp, udp6), in table order
Table(socks, proto, family) ==
    SelectSeq(socks, LAMBDA r : r.proto = proto /\ r.family = family)

----------------------------------------------------------------------------
(* PortQuery: the builder *)

PortQueryNew ==
    [ipv4_addresses |-> TRUE, ipv6_addresses |-> TRUE,
     tcp_addresses |-> TRUE, udp_addresses |-> TRUE,
     process_id |-> None, min_num_ports |-> None]

ip_v4_only(q) == [q EXCEPT !.ipv4_addresses = TRUE, !.ipv6_addresses = FALSE]
ip_v6_only_narrowing(q) == [q EXCEPT !.ipv4_addresses = FALSE]
ip_v6_only(q) == [q EXCEPT !.ipv4_addresses = FALSE, !.ipv6_addresses = TRUE]
tcp_only_fresh(q) == [PortQueryNew EXCEPT !.udp_addresses = FALSE]
tcp_only(q) == [q EXCEPT !.tcp_addresses = TRUE, !.udp_addresses = FALSE]
udp_only(q) == [q EXCEPT !.tcp_addresses = FALSE, !.udp_addresses = TRUE]
expect_min_num_ports(q, n) == [q EXCEPT !.min_num_ports = Some(n)]
process_id(q, pid) == [q EXCEPT !.process_id = Some(pid)]
\* child.id() is the pid of the spawned child
process_id_from_child(q, child) == process_id(q, child.id)

get_pid(q) == q.process_id

resolve_pid_defaulting(q) == [ok |-> TRUE, pid |-> get_pid(q).val]

\* Ok(pid) is [ok |-> TRUE, pid], the error is ConfigurationError
resolve_pid(q) ==
    IF get_pid(q).some THEN [ok |-> TRUE, pid |-> get_pid(q).val]
    ELSE [ok |-> FALSE, pid |-> 0]

\* a builder call, and the query it returns when called on q
Call(name, arg) == [name |-> name, arg |-> arg]
Apply(q, c) ==
    CASE c.name = "ip_v4_only" -> ip_v4_only(q)
      [] c.name = "ip_v6_only" -> ip_v6_only(q)
      [] c.name = "tcp_only" -> tcp_only(q)
      [] c.name = "udp_only" -> udp_only(q)
      [] c.name = "expect_min_num_ports" -> expect_min_num_ports(q, c.arg)
      [] c.name = "process_id" -> process_id(q, c.arg)
      [] c.name = "process_id_from_child" -> process_id_from_child(q, [id |-> c.arg])

\* the calls a caller can make on a PortQuery
BuilderCalls ==
    {Call(name, 0) : name \in {"ip_v4_only", "ip_v6_only", "tcp_only", "udp_only"}}
    \cup {Call("expect_min_num_ports", n) : n \in 0..MaxMin}
    \cup {Call("process_id", pid) : pid \in Pids}
    \cup {Call("process_id_from_child", pid) : pid \in Pids}

\* PortQuery::new() and no call yet
ChainNew == [q |-> PortQueryNew, calls |-> <<>>]

----------------------------------------------------------------------------
(* Linux: /proc/<pid>/fd joined with /proc/<pid>/net/{tcp,tcp6,udp,udp6}   *)

\* the inodes of the sockets among the file descriptors of pid; an entry
\* that cannot be read is passed over (filter_map: `else { None }`)
socket_nodes(socks, pid) ==
    {socks[i].inode :
        i \in {j \in 1..Len(socks) : socks[j].pid = pid /\ ~socks[j].fd_err}}

linux_tcp_entries(q, socks) ==
    Table(socks, "tcp", 4) \o (IF q.ipv6_addresses THEN Table(socks, "tcp", 6) ELSE <<>>)

linux_udp_entries(q, socks) ==
    Table(socks, "udp", 4) \o (IF q.ipv6_addresses THEN Table(socks, "udp", 6) ELSE <<>>)

\* the Linux reader without the test of the TCP state
linux_list_ports_for_pid_any_state(q, pid, socks) ==
    LET nodes == socket_nodes(socks, pid)
        tcp == IF q.tcp_addresses
               THEN SelectMap(linux_tcp_entries(q, socks),
                              LAMBDA e : e.inode \in nodes,
                              LAMBDA e : Tcp(e.port))
               ELSE <<>>
        udp == IF q.udp_addresses
               THEN SelectMap(linux_udp_entries(q, socks),
                              LAMBDA e : e.inode \in nodes,
                              LAMBDA e : Udp(e.port))
               ELSE <<>>
    IN  tcp \o udp

linux_list_ports_for_pid(q, pid, socks) ==
    LET nodes == socket_nodes(socks, pid)
        tcp == IF q.tcp_addresses
               THEN SelectMap(linux_tcp_entries(q, socks),
                              LAMBDA e : e.state = "Listen" /\ e.inode \in nodes,
                              LAMBDA e : Tcp(e.port))
               ELSE <<>>
        udp == IF q.udp_addresses
               THEN SelectMap(linux_udp_entries(q, socks),
                              LAMBDA e : e.inode \in nodes,
                              LAMBDA e : Udp(e.port))
               ELSE <<>>
    IN  tcp \o udp

\* the reads the Linux reader makes, in order; each can fail
linux_reads(q) ==
    <<"proc", "fd">>
    \o (IF q.tcp_addresses
        THEN <<"tcp">> \o (IF q.ipv6_addresses THEN <<"tcp6">> ELSE <<>>) ELSE <<>>)
    \o (IF q.udp_addresses
        THEN <<"udp">> \o (IF q.ipv6_addresses THEN <<"udp6">> ELSE <<>>) ELSE <<>>)

----------------------------------------------------------------------------
(* Windows: GetExtendedTcpTable / GetExtendedUdpTable, rows with the owner  *)

\* the rows of MIB_TCPTABLE_OWNER_PID (TCP_TABLE_OWNER_PID_ALL: every state)
load_tcp_table(socks, family) ==
    LET rows == Table(socks, "tcp", family)
    IN  [i \in 1..Len(rows) |->
            [dwOwningPid |-> rows[i].pid, dwLocalPort |-> rows[i].port,
             dwState |-> rows[i].state]]

\* the rows of MIB_UDPTABLE_OWNER_PID
load_udp_table(socks, family) ==
    LET rows == Table(socks, "udp", family)
    IN  [i \in 1..Len(rows) |->
            [dwOwningPid |-> rows[i].pid, dwLocalPort |-> rows[i].port]]

\* the walk of a TCP table: rows of pid, whatever their dwState
windows_walk_tcp(table, pid) ==
    SelectMap(table, LAMBDA row : row.dwOwningPid = pid,
                     LAMBDA row : Tcp(row.dwLocalPort % U16))

\* the walk of a UDP table: the code pushes ProtocolPort::Tcp here too
windows_walk_udp(table, pid) ==
    SelectMap(table, LAMBDA row : row.dwOwningPid = pid,
                     LAMBDA row : Tcp(row.dwLocalPort % U16))

windows_list_ports_for_pid(q, pid, socks) ==
    (IF q.tcp_addresses /\ q.ipv4_addresses
     THEN windows_walk_tcp(load_tcp_table(socks, 4), pid) ELSE <<>>)
    \o (IF q.tcp_addresses /\ q.ipv6_addresses
        THEN windows_walk_tcp(load_tcp_table(socks, 6), pid) ELSE <<>>)
    \o (IF q.udp_addresses /\ q.ipv4_addresses
        THEN windows_walk_udp(load_udp_table(socks, 4), pid) ELSE <<>>)
    \o (IF q.udp_addresses /\ q.ipv6_addresses
        THEN windows_walk_udp(load_udp_table(socks, 6), pid) ELSE <<>>)

windows_reads(q) ==
    (IF q.tcp_addresses /\ q.ipv4_addresses THEN <<"tcp">> ELSE <<>>)
    \o (IF q.tcp_addresses /\ q.ipv6_addresses THEN <<"tcp6">> ELSE <<>>)
    \o (IF q.udp_addresses /\ q.ipv4_addresses THEN <<"udp">> ELSE <<>>)
    \o (IF q.udp_addresses /\ q.ipv6_addresses THEN <<"udp6">> ELSE <<>>)

----------------------------------------------------------------------------
(* macOS: the output of `lsof -a -i<proto> -i<family> [-sTCP:LISTEN] -nP   *)
(* -F0pn`, a byte buffer, and the two parsers that scan it                  *)

NUL == 0
NL == 10
TagP == 112      \* b'p'
TagN == 110      \* b'n'
Colon == 58      \* b':'
Bracket == 93    \* b']'

RECURSIVE Decimal(_)
\* the ASCII decimal digits of n
Decimal(n) == IF n < 10 THEN <<48 + n>> ELSE Decimal(n \div 10) \o <<48 + (n % 10)>>

\* the name lsof prints for a socket: host:port, *:port or [host]:port
LsofName(r) ==
    (IF r.wild THEN <<42>>                                    \* *
     ELSE IF r.family = 4 THEN <<49, 50, 55, 46, 48, 46, 48, 46, 49>>  \* 127.0.0.1
     ELSE <<91, 58, 58, 49, 93>>)                             \* [::1]
    \o <<Colon>> \o Decimal(r.port)

RECURSIVE LsofFiles(_)
\* one line per file of a process: f<fd> NUL n<name> NUL NL
LsofFiles(rows) ==
    IF rows = <<>> THEN <<>>
    ELSE <<102>> \o Decimal(Head(rows).inode) \o <<NUL, TagN>>
         \o LsofName(Head(rows)) \o <<NUL, NL>> \o LsofFiles(Tail(rows))

RECURSIVE LsofProcesses(_, _)
\* one record per process that has a selected file, by ascending pid
LsofProcesses(rows, pids) ==
    IF pids = {} THEN <<>>
    ELSE LET p == CHOOSE x \in pids : \A y \in pids : x <= y
             mine == SelectSeq(rows, LAMBDA r : r.pid = p)
         IN  (IF mine = <<>> THEN <<>>
              ELSE <<TagP>> \o Decimal(p) \o <<NUL, NL>> \o LsofFiles(mine))
             \o LsofProcesses(rows, pids \ {p})

\* stdout of lsof for one protocol and family; -sTCP:LISTEN selects Listen
LsofOutput(socks, proto, family) ==
    LsofProcesses(
        SelectSeq(socks, LAMBDA r : /\ r.proto = proto
                                      /\ r.family = family
                                      /\ (proto = "tcp" => r.state = "Listen")),
        Pids)

\* output[index], 0-based
At(output, index) == output[index + 1]

RECURSIVE SkipUntil(_, _, _)
\* while index < len && output[index] != byte { index += 1 }
SkipUntil(output, index, byte) ==
    IF index < Len(output) /\ At(output, index) # byte
    THEN SkipUntil(output, index + 1, byte)
    ELSE index

RECURSIVE DigitsValue(_)
DigitsValue(bytes) ==
    IF bytes = <<>> THEN 0
    ELSE 10 * DigitsValue(SubSeq(bytes, 1, Len(bytes) - 1)) + (bytes[Len(bytes)] - 48)

\* u16::MAX and u32::MAX in decimal digits
U16Max == <<54, 53, 53, 51, 53>>
U32Max == <<52, 50, 57, 52, 57, 54, 55, 50, 57, 53>>

RECURSIVE StripZeros(_)
StripZeros(digits) ==
    IF Len(digits) > 1 /\ digits[1] = 48 THEN StripZeros(Tail(digits)) ELSE digits

RECURSIVE LexLeq(_, _)
\* a <= b for digit strings of equal length
LexLeq(a, b) ==
    IF a = <<>> THEN TRUE
    ELSE IF a[1] # b[1] THEN a[1] < b[1]
    ELSE LexLeq(Tail(a), Tail(b))

\* the number written by digits is at most the one written by max
FitsIn(digits, max) ==
    LET d == StripZeros(digits)
    IN  Len(d) < Len(max) \/ (Len(d) = Len(max) /\ LexLeq(d, max))

\* str::parse::<uN>() of output[start..end]: Some(value), or None when the
\* text is empty, has a byte that is no digit (one leading + apart) or
\* exceeds the type, whose largest value is max
ParseUnsigned(output, start, end, max) ==
    LET text == SubSeq(output, start + 1, end)
        digits == IF text # <<>> /\ text[1] = 43 THEN Tail(text) ELSE text
    IN  IF digits = <<>> \/ \E i \in 1..Len(digits) : digits[i] < 48 \/ digits[i] > 57
        THEN None
        ELSE IF ~FitsIn(digits, max) THEN None
        ELSE Some(DigitsValue(digits))

\* the scanner at the head of a loop: which loop, the locals index, pid and
\* out, and the bytes read and the slices taken by the iteration before
ScanStart ==
    [loop |-> "outer", index |-> 0, pid |-> 0, out |-> <<>>,
     reads |-> {}, slices |-> {}]

\* the indices read by `while index < len && output[index] != byte` that
\* starts at from and stops at to
SkipReads(output, from, to) == {i \in from..to : i < Len(output)}

\* the reads of the two tests that end an iteration of the inner loop
TailReads(output, after, next) ==
    {i \in {after, next} : i < Len(output)}

\* the outer loop stepping over a byte that is no `p` tag
scan_records_resync(output, st) ==
    LET len == Len(output)
        index == st.index
        start_pid == index + 1
        end_pid == SkipUntil(output, start_pid, NUL)
        pid == ParseUnsigned(output, start_pid, end_pid, U32Max)
    IN  IF index >= len
        THEN [st EXCEPT !.loop = "done", !.reads = {}, !.slices = {}]
        ELSE IF At(output, index) # TagP
        THEN [st EXCEPT !.index = index + 1, !.reads = {index}, !.slices = {}]
        ELSE IF ~pid.some
        THEN [st EXCEPT !.loop = "done", !.index = end_pid,
                        !.reads = {index} \cup SkipReads(output, start_pid, end_pid),
                        !.slices = {<<start_pid, end_pid>>}]
        ELSE [st EXCEPT !.loop = "inner", !.index = end_pid + 2, !.pid = pid.val,
                        !.reads = {index} \cup SkipReads(output, start_pid, end_pid),
                        !.slices = {<<start_pid, end_pid>>}]

\* one iteration of the outer loop of find_ports_v4 and of find_ports_v6,
\* with the test of `while index < len`
scan_records(output, st) ==
    LET len == Len(output)
        index == st.index
        start_pid == index + 1
        end_pid == SkipUntil(output, start_pid, NUL)
        pid == ParseUnsigned(output, start_pid, end_pid, U32Max)
    IN  IF index >= len
        THEN [st EXCEPT !.loop = "done", !.reads = {}, !.slices = {}]
        ELSE IF At(output, index) # TagP
        THEN [st EXCEPT !.loop = "done", !.reads = {index}, !.slices = {}]
        ELSE IF ~pid.some
        THEN [st EXCEPT !.loop = "done", !.index = end_pid,
                        !.reads = {index} \cup SkipReads(output, start_pid, end_pid),
                        !.slices = {<<start_pid, end_pid>>}]
        ELSE [st EXCEPT !.loop = "inner", !.index = end_pid + 2, !.pid = pid.val,
                        !.reads = {index} \cup SkipReads(output, start_pid, end_pid),
                        !.slices = {<<start_pid, end_pid>>}]

\* the inner loop of find_ports_v4 without the test of the end of the buffer
\* before the port is sliced
v4_fields_unchecked(output, find_pid, st) ==
    LET len == Len(output)
        index == st.index
        is_name == st.pid = find_pid /\ index < len /\ At(output, index) = TagN
        colon == SkipUntil(output, index, Colon)
        start_port == colon + 1
        end_port == SkipUntil(output, start_port, NUL)
        port == ParseUnsigned(output, start_port, end_port, U16Max)
        nul == SkipUntil(output, index, NUL)
        after == IF is_name THEN end_port + 1 ELSE nul + 1
        pushed == IF is_name /\ port.some THEN Append(st.out, port.val) ELSE st.out
        next == IF after < len /\ At(output, after) = NL THEN after + 1 ELSE after
        tested == IF st.pid = find_pid /\ index < len THEN {index} ELSE {}
    IN  [st EXCEPT !.loop = IF next >= len \/ At(output, next) = TagP
                              THEN "outer" ELSE "inner",
                   !.index = next, !.out = pushed,
                   !.reads = tested \cup TailReads(output, after, next)
                             \cup (IF is_name
                                   THEN SkipReads(output, index, colon)
                                        \cup SkipReads(output, start_port, end_port)
                                   ELSE SkipReads(output, index, nul)),
                   !.slices = IF is_name THEN {<<start_port, end_port>>} ELSE {}]

\* one iteration of the inner loop of find_ports_v4
v4_fields(output, find_pid, st) ==
    LET len == Len(output)
        index == st.index
        is_name == st.pid = find_pid /\ index < len /\ At(output, index) = TagN
        colon == SkipUntil(output, index, Colon)
        start_port == colon + 1
        end_port == SkipUntil(output, start_port, NUL)
        port == ParseUnsigned(output, start_port, end_port, U16Max)
        nul == SkipUntil(output, index, NUL)
        after == IF is_name THEN end_port + 1 ELSE nul + 1
        pushed == IF is_name /\ port.some THEN Append(st.out, port.val) ELSE st.out
        next == IF after < len /\ At(output, after) = NL THEN after + 1 ELSE after
        tested == IF st.pid = find_pid /\ index < len THEN {index} ELSE {}
    IN  IF is_name /\ end_port >= len
        THEN [st EXCEPT !.loop = "outer", !.index = end_port,
                        !.reads = tested \cup SkipReads(output, index, colon)
                                  \cup SkipReads(output, start_port, end_port),
                        !.slices = {}]
        ELSE [st EXCEPT !.loop = IF next >= len \/ At(output, next) = TagP
                                   THEN "outer" ELSE "inner",
                        !.index = next, !.out = pushed,
                        !.reads = tested \cup TailReads(output, after, next)
                                  \cup (IF is_name
                                        THEN SkipReads(output, index, colon)
                                             \cup SkipReads(output, start_port, end_port)
                                        ELSE SkipReads(output, index, nul)),
                        !.slices = IF is_name THEN {<<start_port, end_port>>} ELSE {}]

\* one iteration of the inner loop of find_ports_v6
v6_fields(output, find_pid, st) ==
    LET len == Len(output)
        index == st.index
        is_name == st.pid = find_pid /\ index < len /\ At(output, index) = TagN
        bracket == SkipUntil(output, index, Bracket)
        close == bracket + 1
        start_port == close + 1
        end_port == SkipUntil(output, start_port, NUL)
        port == ParseUnsigned(output, start_port, end_port, U16Max)
        nul == SkipUntil(output, index, NUL)
        after == IF is_name THEN end_port + 1 ELSE nul + 1
        pushed == IF is_name /\ port.some THEN Append(st.out, port.val) ELSE st.out
        next == IF after < len /\ At(output, after) = NL THEN after + 1 ELSE after
        tested == IF st.pid = find_pid /\ index < len THEN {index} ELSE {}
        named == tested \cup SkipReads(output, index, bracket)
                 \cup (IF close < len THEN {close} ELSE {})
    IN  IF is_name /\ close < len /\ At(output, close) # Colon
        THEN [st EXCEPT !.loop = "outer", !.index = close,
                        !.reads = named, !.slices = {}]
        ELSE IF is_name /\ end_port >= len
        THEN [st EXCEPT !.loop = "outer", !.index = end_port,
                        !.reads = named \cup SkipReads(output, start_port, end_port),
                        !.slices = {}]
        ELSE [st EXCEPT !.loop = IF next >= len \/ At(output, next) = TagP
                                   THEN "outer" ELSE "inner",
                        !.index = next, !.out = pushed,
                        !.reads = TailReads(output, after, next)
                                  \cup (IF is_name
                                        THEN named
                                             \cup SkipReads(output, start_port, end_port)
                                        ELSE tested \cup SkipReads(output, index, nul)),
                        !.slices = IF is_name THEN {<<start_port, end_port>>} ELSE {}]

\* the step of the scanner st: an iteration of the loop it is in
scan_step(family, output, find_pid, st) ==
    IF st.loop = "outer" THEN scan_records(output, st)
    ELSE IF family = 4 THEN v4_fields(output, find_pid, st)
    ELSE v6_fields(output, find_pid, st)

RECURSIVE find_ports(_, _, _, _)
\* the loops run to their end: the Vec returned
find_ports(family, output, find_pid, st) ==
    IF st.loop = "done" THEN st.out
    ELSE find_ports(family, output, find_pid, scan_step(family, output, find_pid, st))

find_ports_v4(output, find_pid) == find_ports(4, output, find_pid, ScanStart)

find_ports_v6(output, find_pid) == find_ports(6, output, find_pid, ScanStart)

----------------------------------------------------------------------------
(* Byte buffers for the macOS parsers *)

\* a name field: host, `:` and the text of the port
Name(host, port) == [host |-> host, port |-> port]

Wild8 == Name(<<42>>, <<56>>)                                \* *:8
Host9 == Name(<<49>>, <<57>>)                                \* 1:9
Peer8 == Name(<<49, Colon, 57, 45, 62, 50>>, <<56>>)         \* 1:9->2:8
V6Host7 == Name(<<91, Colon, Colon, 49, Bracket>>, <<55>>)   \* [::1]:7
V6Host6 == Name(<<91, Colon, Colon, 50, Bracket>>, <<54>>)   \* [::2]:6
Wide4 == Name(<<42>>, <<54, 53, 53, 51, 54>>)                \* *:65536
Wide6 == Name(<<91, Colon, Colon, 49, Bracket>>, <<120>>)    \* [::1]:x

\* a record of lsof -F0pn: the pid field, then one line per file
Record(pid, names) == [kind |-> "record", pid |-> pid, names |-> names]

\* bytes that are no record
Bytes(bytes) == [kind |-> "bytes", bytes |-> bytes]

\* the bytes of `]` with no `:` after it, as a name of the target would hold
NoColon == Bytes(<<TagP, 49, NUL, NL, TagN, 91, Bracket, 55, NUL, NL>>)

Pieces(family) ==
    IF family = 4
    THEN { Record(Decimal(p), names) : p \in Pids, names \in {<<Wild8>>, <<Host9, Wild8>>} }
         \cup { Record(<<120>>, <<Host9>>), Record(<<49>>, <<Wide4>>),
                Record(<<49>>, <<Peer8>>), Bytes(<<120>>), Bytes(<<NL>>) }
    ELSE { Record(Decimal(p), names) : p \in Pids, names \in {<<V6Host7>>, <<V6Host6, V6Host7>>} }
         \cup { Record(<<49>>, <<Wild8>>), Record(<<120>>, <<V6Host7>>),
                Record(<<49>>, <<Wide6>>), NoColon, Bytes(<<NL>>) }

RECURSIVE RenderNames(_)
RenderNames(names) ==
    IF names = <<>> THEN <<>>
    ELSE <<102, 51, NUL, TagN>> \o Head(names).host \o <<Colon>> \o Head(names).port
         \o <<NUL, NL>> \o RenderNames(Tail(names))

RenderPiece(piece) ==
    IF piece.kind = "bytes" THEN piece.bytes
    ELSE <<TagP>> \o piece.pid \o <<NUL, NL>> \o RenderNames(piece.names)

RECURSIVE Render(_)
Render(pieces) ==
    IF pieces = <<>> THEN <<>> ELSE RenderPiece(Head(pieces)) \o Render(Tail(pieces))

\* the buffers: up to MaxPieces pieces
PieceSeqs(family) ==
    UNION { [1..n -> Pieces(family)] : n \in 0..MaxPieces }

\* the number of bytes a buffer can lack at its end: a buffer below the
\* largest size is cut at any place of its last piece
Cuts(pieces) ==
    IF pieces = <<>> \/ Len(pieces) = MaxPieces THEN {0}
    ELSE 0..(Len(RenderPiece(pieces[Len(pieces)])) - 1)

\* the arguments of a call and the scanner at its entry
ScanCall(family, pieces, cut, find_pid) ==
    [family |-> family, pieces |-> pieces, cut |-> cut,
     output |-> SubSeq(Render(pieces), 1, Len(Render(pieces)) - cut),
     find_pid |-> find_pid, st |-> ScanStart]

MapTcp(ports) == [i \in 1..Len(ports) |-> Tcp(ports[i])]
MapUdp(ports) == [i \in 1..Len(ports) |-> Udp(ports[i])]

macos_list_ports_for_pid(q, pid, socks) ==
    (IF q.ipv4_addresses /\ q.tcp_addresses
     THEN MapTcp(find_ports_v4(LsofOutput(socks, "tcp", 4), pid)) ELSE <<>>)
    \o (IF q.ipv4_addresses /\ q.udp_addresses
        THEN MapUdp(find_ports_v4(LsofOutput(socks, "udp", 4), pid)) ELSE <<>>)
    \o (IF q.ipv6_addresses /\ q.tcp_addresses
        THEN MapTcp(find_ports_v6(LsofOutput(socks, "tcp", 6), pid)) ELSE <<>>)
    \o (IF q.ipv6_addresses /\ q.udp_addresses
        THEN MapUdp(find_ports_v6(LsofOutput(socks, "udp", 6), pid)) ELSE <<>>)

\* the lsof runs the macOS reader makes, in order; each spawn can fail
macos_reads(q) ==
    (IF q.ipv4_addresses /\ q.tcp_addresses THEN <<"tcp">> ELSE <<>>)
    \o (IF q.ipv4_addresses /\ q.udp_addresses THEN <<"udp">> ELSE <<>>)
    \o (IF q.ipv6_addresses /\ q.tcp_addresses THEN <<"tcp6">> ELSE <<>>)
    \o (IF q.ipv6_addresses /\ q.udp_addresses THEN <<"udp6">> ELSE <<>>)

----------------------------------------------------------------------------
(* PortQuery::execute *)

Platforms == {"linux", "windows", "macos", "other"}

\* the cfg-selected list_ports_for_pid
list_ports_for_pid(q, pid, socks) ==
    CASE platform = "linux" -> linux_list_ports_for_pid(q, pid, socks)
      [] platform = "windows" -> windows_list_ports_for_pid(q, pid, socks)
      [] platform = "macos" -> macos_list_ports_for_pid(q, pid, socks)

reads_for(q) ==
    CASE platform = "linux" -> linux_reads(q)
      [] platform = "windows" -> windows_reads(q)
      [] platform = "macos" -> macos_reads(q)
      [] OTHER -> <<>>

check_min_num_ports_inclusive(q, ports) ==
    IF q.min_num_ports.some /\ Len(ports) <= q.min_num_ports.val
    THEN TooFewPorts(ports, q.min_num_ports.val)
    ELSE Ok(ports)

\* the check of the minimum after the reader returned ports
check_min_num_ports(q, ports) ==
    IF q.min_num_ports.some /\ Len(ports) < q.min_num_ports.val
    THEN TooFewPorts(ports, q.min_num_ports.val)
    ELSE Ok(ports)

\* execute() on the socket table socks; fault = k > 0 makes the k-th read
\* fail, 0 lets all succeed
execute_partial(q, socks, fault) ==
    IF platform = "other" THEN check_min_num_ports(q, <<>>)
    ELSE IF ~resolve_pid(q).ok THEN ConfigurationError
    ELSE IF fault > 0 /\ reads_for(q)[fault] \in {"proc", "fd"} THEN ProcessError
    ELSE check_min_num_ports(q, list_ports_for_pid(q, resolve_pid(q).pid, socks))

execute(q, socks, fault) ==
    IF platform = "other" THEN check_min_num_ports(q, <<>>)
    ELSE IF ~resolve_pid(q).ok THEN ConfigurationError
    ELSE IF fault > 0 THEN ProcessError
    ELSE check_min_num_ports(q, list_ports_for_pid(q, resolve_pid(q).pid, socks))

\* execute() reading the tables before it resolves the pid
execute_reads_unresolved(q, fault) ==
    IF platform = "other" THEN <<>>
    ELSE IF fault > 0 THEN SubSeq(reads_for(q), 1, fault)
    ELSE reads_for(q)

\* the reads execute() made
execute_reads(q, fault) ==
    IF platform = "other" \/ ~resolve_pid(q).ok THEN <<>>
    ELSE IF fault > 0 THEN SubSeq(reads_for(q), 1, fault)
    ELSE reads_for(q)

\* the socket tables the OS can hold when execute() runs; a build for
\* another target reads none
OsTables == IF platform = "other" THEN {<<>>} ELSE SocketTables

Faults(q) ==
    IF platform = "other" \/ ~resolve_pid(q).ok THEN {0} ELSE 0..Len(reads_for(q))

\* the entry of /proc/<pid>/fd that cannot be read: none, or one of the
\* target's sockets (Linux; the other readers do not list descriptors)
FdErrs(q, socks) ==
    IF platform = "linux" /\ resolve_pid(q).ok
    THEN {0} \cup {i \in 1..Len(socks) : socks[i].pid = resolve_pid(q).pid}
    ELSE {0}

----------------------------------------------------------------------------
(* Windows: the loop of load_tcp_table and load_udp_table *)

\* for _ in 0..3
LoadTries == 3

load_again_once_more(calls) == calls <= LoadTries

\* the loop goes on to another call after calls calls
load_again(calls) == calls < LoadTries

\* the sizes in bytes the table of the OS can need; it always has its header
TableSizes == 1..MaxTableSize

\* the replies of GetExtendedTcpTable / GetExtendedUdpTable to a buffer of
\* table_size bytes when the table needs need bytes: an error of its own,
\* ERROR_INSUFFICIENT_BUFFER with the size needed, or NO_ERROR
ApiReplies(table_size, need) ==
    {[code |-> "ERROR_INVALID_PARAMETER", size |-> table_size]}
    \cup (IF table_size < need
          THEN {[code |-> "ERROR_INSUFFICIENT_BUFFER", size |-> need]}
          ELSE {[code |-> "NO_ERROR", size |-> table_size],
                [code |-> "NO_ERROR", size |-> need]})

\* the locals at entry: Vec::with_capacity(0) and table_size = 0
LoadStart(kind, family) ==
    [kind |-> kind, family |-> family, pc |-> "call", calls |-> 0,
     table |-> 0, table_size |-> 0, replies |-> <<>>, result |-> "NotReturned"]

\* one turn of the loop: the call, and what the code does with the reply
load_turn(l, reply) ==
    LET called == [l EXCEPT !.calls = @ + 1, !.table_size = reply.size,
                            !.replies = Append(@, reply)]
    IN  IF reply.code = "ERROR_INSUFFICIENT_BUFFER"
        THEN IF load_again(called.calls)
             THEN [called EXCEPT !.table = reply.size]
             ELSE [called EXCEPT !.table = reply.size, !.pc = "done",
                                 !.result = "ProcessError"]
        ELSE IF reply.code # "NO_ERROR"
        THEN [called EXCEPT !.pc = "done", !.result = "ProcessError"]
        ELSE [called EXCEPT !.pc = "done", !.result = "Ok"]

----------------------------------------------------------------------------
(* The command-line program: cli/main.rs *)

\* the exit code of a process whose main thread panicked
PanicCode == 101

\* the first argument: none, "1", "2", "+1", "" or "p"
CliArgs ==
    {None, Some(Decimal(1)), Some(Decimal(2)), Some(<<43>> \o Decimal(1)),
     Some(<<>>), Some(<<TagP>>)}

\* the process before main has returned: no exit code yet
CliStart(arg) ==
    [arg |-> arg, pc |-> "main", pid |-> 0, exited |-> FALSE, code |-> 0,
     stdout |-> <<>>, stderr |-> <<>>]

\* v.parse::<u32>()
cli_parse(v) == ParseUnsigned(v, 0, Len(v), U32Max)

\* the query main builds for pid
cli_query(pid) ==
    process_id(expect_min_num_ports(ip_v4_only(tcp_only(PortQueryNew)), 2), pid)

\* main returned: the exit code of the process
cli_exit(c) == [c EXCEPT !.pc = "exited", !.exited = TRUE, !.code = 0]

\* main panicked
cli_panic(c) ==
    [c EXCEPT !.pc = "exited", !.exited = TRUE, !.code = PanicCode,
              !.stderr = Append(@, "panicked")]

----------------------------------------------------------------------------
(* The retry wrappers.  execute_with_retry_sync and children_with_retry_sync *)
(* hand the operation to retry::retry with Fixed::from(delay).take(count);   *)
(* execute_with_retry and children_with_retry are recursive async fns.       *)

Delays == {1, 2}

\* what one call of the single-shot operation can return
Outcomes(op) ==
    IF op = "execute"
    THEN {"Ok", "ConfigurationError", "TooFewPorts"}
    ELSE {"Ok", "ConfigurationError", "TooFewChildren"}

\* the log entry of the n-th call of the operation and of a sleep
Attempt(n, kind) == [ev |-> "op", n |-> n, kind |-> kind, dur |-> 0]
Sleep(dur) == [ev |-> "sleep", n |-> 0, kind |-> "", dur |-> dur]

Attempts == Cardinality({i \in 1..Len(rlog) : rlog[i].ev = "op"})
Sleeps == Cardinality({i \in 1..Len(rlog) : rlog[i].ev = "sleep"})

\* the result of a retry call: the outcome of the n-th call of the operation
RetryResult(n, kind) == [n |-> n, kind |-> kind]
RetryNotReturned == [n |-> 0, kind |-> "NotReturned"]

retry_delays_one_more(count) == count + 1

\* the number of delays Fixed::from(delay).take(count) yields
retry_delays(count) == count

async_exhausted_off_by_one(count) == count = 1

async_exhausted_at_one(count) == count <= 1

\* the test `count == 0` of the async form
async_exhausted(count) == count = 0

\* the number of calls of the operation in a log
AttemptsIn(log) == Cardinality({i \in 1..Len(log) : log[i].ev = "op"})

\* one retry call in flight: the delays or count left, where it is, its log
\* and its result
RetryCall(left) ==
    [left |-> left, pc |-> "attempt", log |-> <<>>, result |-> RetryNotReturned]

\* retry::retry, one turn of its loop up to the sleep: the operation
\* returned kind
with_retry_sync_attempt(r, kind) ==
    LET n == AttemptsIn(r.log) + 1
        called == [r EXCEPT !.log = Append(@, Attempt(n, kind))]
    IN  IF kind = "Ok"
        THEN [called EXCEPT !.result = RetryResult(n, kind), !.pc = "done"]
        ELSE IF r.left > 0
        THEN [called EXCEPT !.left = @ - 1, !.pc = "sleep"]
        ELSE [called EXCEPT !.result = RetryResult(n, kind), !.pc = "done"]

\* retry::retry: std::thread::sleep(delay)
with_retry_sync_sleep(r, delay) ==
    [r EXCEPT !.log = Append(@, Sleep(delay)), !.pc = "attempt"]

\* the async fn up to the sleep: the operation returned kind
with_retry_attempt(r, kind) ==
    LET n == AttemptsIn(r.log) + 1
        called == [r EXCEPT !.log = Append(@, Attempt(n, kind))]
    IN  IF kind = "Ok" \/ async_exhausted(r.left)
        THEN [called EXCEPT !.result = RetryResult(n, kind), !.pc = "done"]
        ELSE [called EXCEPT !.pc = "sleep"]

\* the async fn: tokio::time::sleep(delay).await and the call with count - 1
with_retry_sleep(r, delay) ==
    [r EXCEPT !.log = Append(@, Sleep(delay)), !.left = @ - 1, !.pc = "attempt"]

\* both forms called with the same operation, delay and count
PairOf(op, count, delay) ==
    [op |-> op, count |-> count, delay |-> delay, outs |-> <<>>,
     sync |-> RetryCall(retry_delays(count)), async |-> RetryCall(count)]

\* what the n-th call of the operation can return when outs holds the
\* outcomes of the calls one of the forms has made already
OutcomesAt(op, outs, n) == IF n <= Len(outs) THEN {outs[n]} ELSE Outcomes(op)
Recorded(outs, n, kind) == IF n <= Len(outs) THEN outs ELSE Append(outs, kind)

----------------------------------------------------------------------------
(* ProcQuery: the builder, the process snapshot and children()             *)

ProcPids == 1..MaxProcs

\* a process of the OS table: its pid and its parent, if it has one
Processes ==
    {[pid |-> p, parent |-> par] :
        p \in ProcPids, par \in {None} \cup {Some(x) : x \in ProcPids}}

ProcQueryNew == [process_id |-> None, name |-> None, min_num_children |-> None]

proc_process_id(q, pid) == [q EXCEPT !.process_id = Some(pid)]
proc_process_id_from_child(q, child) == proc_process_id(q, child.id)
expect_min_num_children(q, n) == [q EXCEPT !.min_num_children = Some(n)]

\* a process name, in pieces: "waiter" is <<"waiter">>, "waiter.exe" is
\* <<"waiter", ".exe">>
ProcNames == {<<"waiter">>, <<"waiter", ".exe">>, <<"proc-runner">>}

\* process_name: on Windows a name that does not end with ".exe"
\* (ends_with) gets it (push_str)
process_name(q, name) ==
    [q EXCEPT !.name =
        Some(IF platform = "windows" /\ ~(Len(name) > 0 /\ name[Len(name)] = ".exe")
             THEN Append(name, ".exe") ELSE name)]

\* the processes of the OS table with their names
NamedProcesses ==
    {[pid |-> p, parent |-> None, name |-> n] : p \in ProcPids, n \in ProcNames}
NamedTables ==
    {t \in SUBSET NamedProcesses : \A a, b \in t : a.pid = b.pid => a = b}

\* ProcCtlResult<Vec<ProcInfo>>; TooFewChildren holds two numbers and no
\* list, so children is empty for every error
ChildrenOk(children) == [kind |-> "Ok", children |-> children, found |-> 0, num |-> 0]
TooFewChildren(found, num) ==
    [kind |-> "TooFewChildren", children |-> {}, found |-> found, num |-> num]
ChildrenConfigurationError ==
    [kind |-> "ConfigurationError", children |-> {}, found |-> 0, num |-> 0]
ChildrenNotReturned == [kind |-> "NotReturned", children |-> {}, found |-> 0, num |-> 0]

\* System::refresh_processes(ProcessesToUpdate::All, true): the snapshot
\* becomes the processes alive now, dead ones removed
refresh_processes_keep_dead(snapshot, alive) ==
    alive \cup {p \in snapshot : \A a \in alive : a.pid # p.pid}

refresh_processes(snapshot, alive) == alive

\* the filter of children(): the processes whose parent is pid
children_filter_or_self(procs, pid) ==
    {p \in procs : p.parent = Some(pid) \/ p.pid = pid}

children_filter(procs, pid) == {p \in procs : p.parent = Some(pid)}

check_min_num_children_listed(q, children) ==
    IF q.min_num_children.some /\ Cardinality(children) < q.min_num_children.val
    THEN [kind |-> "TooFewChildren", children |-> children,
          found |-> q.min_num_children.val, num |-> Cardinality(children)]
    ELSE ChildrenOk(children)

\* the check of the minimum at the end of children()
check_min_num_children(q, children) ==
    IF q.min_num_children.some /\ Cardinality(children) < q.min_num_children.val
    THEN TooFewChildren(Cardinality(children), q.min_num_children.val)
    ELSE ChildrenOk(children)

list_filter_either(procs, q) ==
    {p \in procs :
        \/ q.process_id.some /\ p.pid = q.process_id.val
        \/ q.name.some /\ p.name = q.name.val
        \/ ~q.process_id.some /\ ~q.name.some}

\* the filter of list_processes(): the processes that match every criterion
\* that is set
list_filter(procs, q) ==
    {p \in procs :
        /\ q.process_id.some => p.pid = q.process_id.val
        /\ q.name.some => p.name = q.name.val}

\* ProcCtlResult<Vec<ProcInfo>> of list_processes(): always Ok
ListOk(infos) == ChildrenOk(infos)

once_claim_racy(state) == state # "done"

\* OnceLock::get_or_init: the caller runs the closure when the cell is empty
\* and no other caller is running it
once_claim(state) == state = "new"

mutex_free_always(held) == TRUE

\* Mutex::lock returns when no other guard is alive
mutex_free(held) == ~held

drop_guard_on_ok(held, kind) == IF kind = "TooFewChildren" THEN held ELSE FALSE

\* the MutexGuard goes out of scope when the call returns, with Ok or with
\* TooFewChildren: the Mutex is free again
drop_guard(held, kind) == FALSE

\* the threads that call the process query
Callers == {1, 2}

\* SYS_HANDLE before the first access: nothing constructed, nothing stored
CellNew == [state |-> "new", built |-> 0, stored |-> 0]

\* a thread outside every call
CallerIdle ==
    [op |-> "none", q |-> ProcQueryNew, pc |-> "idle", handle |-> 0,
     before |-> {}, mine |-> {}, result |-> ChildrenNotReturned]

\* the process every table of the concurrent runs holds, the target of the
\* children() calls, and the tables: its children come and go
Root == [pid |-> 1, parent |-> None]
FamilyTables ==
    {t \in SUBSET Processes :
        /\ Root \in t
        /\ \A a, b \in t : a.pid = b.pid => a = b
        /\ \A a \in t \ {Root} : a.parent = Some(Root.pid)}

\* the queries the threads call children() on: without a pid, with the pid
\* of Root, and with a minimum of one child
ChildrenQueries ==
    {ProcQueryNew,
     proc_process_id(ProcQueryNew, Root.pid),
     expect_min_num_children(proc_process_id(ProcQueryNew, Root.pid), 1)}

----------------------------------------------------------------------------
(* Each specification runs one part of the crate; the other parts stay idle *)

PortIdle ==
    /\ platform = "other"
    /\ sockets = <<>>
    /\ query = PortQueryNew
    /\ pc = "off"
    /\ reads = <<>>
    /\ result = NotReturned
    /\ failed = 0

ProcIdle ==
    /\ os_procs = {}
    /\ sys = [init |-> FALSE, procs |-> {}]
    /\ lock = FALSE
    /\ pquery = ProcQueryNew
    /\ ppc = "off"
    /\ target = 0
    /\ refreshed_at = {}
    /\ presult = ChildrenNotReturned

RetryIdle ==
    /\ rform = "sync"
    /\ rop = "execute"
    /\ rcount = 0
    /\ rdelay = 1
    /\ rleft = 0
    /\ rpc = "off"
    /\ rlog = <<>>
    /\ rresult = RetryNotReturned

PairIdle ==
    pair = [PairOf("execute", 0, 1) EXCEPT !.sync.pc = "off", !.async.pc = "off"]

ChainIdle == chain = ChainNew

ListIdle == asked = None

CliIdle == cli = [CliStart(None) EXCEPT !.pc = "off"]

LoadIdle == load = [LoadStart("tcp", 4) EXCEPT !.pc = "off"]

ScanIdle == scan = [ScanCall(4, <<>>, 0, 1) EXCEPT !.st.loop = "off"]

ConcIdle ==
    /\ cell = CellNew
    /\ callers = [t \in Callers |-> CallerIdle]

----------------------------------------------------------------------------
(* children(): the state machine *)

\* the process tables: at most one process per pid, none its own parent
ProcTables ==
    {t \in SUBSET Processes :
        /\ \A a, b \in t : a.pid = b.pid => a = b
        /\ \A a \in t : a.parent # Some(a.pid)}

ProcInit ==
    /\ ScanIdle
    /\ LoadIdle
    /\ CliIdle
    /\ ListIdle
    /\ ConcIdle
    /\ ChainIdle
    /\ PairIdle
    /\ PortIdle
    /\ RetryIdle
    /\ os_procs \in ProcTables
    /\ sys = [init |-> FALSE, procs |-> {}]
    /\ lock = FALSE
    /\ pquery = ProcQueryNew
    /\ ppc = "build"
    /\ target = 0
    /\ refreshed_at = {}
    /\ presult = ChildrenNotReturned

ProcBuild(q) ==
    /\ ppc = "build"
    /\ pquery' = q
    /\ UNCHANGED <<os_procs, sys, lock, ppc, target, refreshed_at, presult>>
    /\ UNCHANGED notProc

ProcProcessId == \E pid \in Pids : ProcBuild(proc_process_id(pquery, pid))
ProcProcessIdFromChild ==
    \E pid \in Pids : ProcBuild(proc_process_id_from_child(pquery, [id |-> pid]))
ExpectMinNumChildren ==
    \E n \in 0..MaxMinChildren : ProcBuild(expect_min_num_children(pquery, n))

\* children(), line 119: resolve_pid(self)?
ChildrenResolve ==
    /\ ppc = "build"
    /\ IF resolve_pid(pquery).ok
       THEN /\ target' = resolve_pid(pquery).pid
            /\ ppc' = "resolved"
            /\ UNCHANGED presult
       ELSE /\ presult' = ChildrenConfigurationError
            /\ ppc' = "done"
            /\ UNCHANGED target
    /\ UNCHANGED <<os_procs, sys, lock, pquery, refreshed_at>>
    /\ UNCHANGED notProc

\* line 121: sys_handle().lock(): the first call constructs the System and
\* refreshes it once, then the Mutex is taken
ChildrenLock ==
    /\ ppc = "resolved"
    /\ ~lock
    /\ sys' = IF sys.init THEN sys
              ELSE [init |-> TRUE, procs |-> refresh_processes({}, os_procs)]
    /\ lock' = TRUE
    /\ ppc' = "locked"
    /\ UNCHANGED <<os_procs, pquery, target, refreshed_at, presult>>
    /\ UNCHANGED notProc

\* line 122: refresh_processes under the lock
ChildrenRefresh ==
    /\ ppc = "locked"
    /\ sys' = [sys EXCEPT !.procs = refresh_processes(sys.procs, os_procs)]
    /\ refreshed_at' = os_procs
    /\ ppc' = "refreshed"
    /\ UNCHANGED <<os_procs, lock, pquery, target, presult>>
    /\ UNCHANGED notProc

\* lines 123-136: filter, check the minimum, drop the guard, return
ChildrenFilter ==
    /\ ppc = "refreshed"
    /\ presult' = check_min_num_children(pquery, children_filter(sys.procs, target))
    /\ lock' = FALSE
    /\ ppc' = "done"
    /\ UNCHANGED <<os_procs, sys, pquery, target, refreshed_at>>
    /\ UNCHANGED notProc

\* the operating system starts a process
Spawn ==
    /\ ppc \in {"build", "resolved", "locked", "refreshed"}
    /\ \E p \in Processes :
        /\ os_procs \cup {p} \in ProcTables
        /\ p \notin os_procs
        /\ os_procs' = os_procs \cup {p}
    /\ UNCHANGED <<sys, lock, pquery, ppc, target, refreshed_at, presult>>
    /\ UNCHANGED notProc

\* a process ends
Exit ==
    /\ ppc \in {"build", "resolved", "locked", "refreshed"}
    /\ \E p \in os_procs : os_procs' = os_procs \ {p}
    /\ UNCHANGED <<sys, lock, pquery, ppc, target, refreshed_at, presult>>
    /\ UNCHANGED notProc

ProcNext ==
    \/ ProcProcessId
    \/ ProcProcessIdFromChild
    \/ ExpectMinNumChildren
    \/ ChildrenResolve
    \/ ChildrenLock
    \/ ChildrenRefresh
    \/ ChildrenFilter
    \/ Spawn
    \/ Exit

ProcSpec == ProcInit /\ [][ProcNext]_vars

----------------------------------------------------------------------------
(* Threads that call children() and list_processes() at the same time, and *)
(* again after they returned, on the one SYS_HANDLE                        *)

ConcInit ==
    /\ ScanIdle
    /\ LoadIdle
    /\ CliIdle
    /\ ListIdle
    /\ PortIdle
    /\ RetryIdle
    /\ PairIdle
    /\ ChainIdle
    /\ os_procs \in FamilyTables
    /\ sys = [init |-> FALSE, procs |-> {}]
    /\ lock = FALSE
    /\ pquery = ProcQueryNew
    /\ ppc = "off"
    /\ target = 0
    /\ refreshed_at = {}
    /\ presult = ChildrenNotReturned
    /\ cell = CellNew
    /\ callers = [t \in Callers |-> CallerIdle]

\* children(), line 119: resolve_pid(self)? ends the call before the
\* snapshot is touched
CallChildren(t) ==
    /\ callers[t].pc = "idle"
    /\ \E q \in ChildrenQueries :
        callers' = [callers EXCEPT ![t] =
            IF resolve_pid(q).ok
            THEN [CallerIdle EXCEPT !.op = "children", !.q = q, !.pc = "get"]
            ELSE [CallerIdle EXCEPT !.op = "children", !.q = q, !.pc = "done",
                                    !.result = ChildrenConfigurationError]]
    /\ UNCHANGED <<os_procs, sys, lock, cell>>
    /\ UNCHANGED notConc

\* list_processes() resolves nothing
CallListProcesses(t) ==
    /\ callers[t].pc = "idle"
    /\ callers' = [callers EXCEPT ![t] =
            [CallerIdle EXCEPT !.op = "list_processes", !.pc = "get"]]
    /\ UNCHANGED <<os_procs, sys, lock, cell>>
    /\ UNCHANGED notConc

\* sys_handle(): SYS_HANDLE.get_or_init.  A full cell hands out what it has
\* stored; on an empty one the caller starts the closure; while another
\* caller runs the closure, this one waits
GetOrInit(t) ==
    /\ callers[t].pc = "get"
    /\ IF cell.state = "done"
       THEN /\ callers' = [callers EXCEPT ![t].pc = "lock", ![t].handle = cell.stored]
            /\ UNCHANGED cell
       ELSE /\ once_claim(cell.state)
            /\ cell' = [cell EXCEPT !.state = "running"]
            /\ callers' = [callers EXCEPT ![t].pc = "init"]
    /\ UNCHANGED <<os_procs, sys, lock>>
    /\ UNCHANGED notConc

\* the closure of get_or_init: System::new_with_specifics, one refresh,
\* Mutex::new; the cell stores the result and hands it out
InitSysHandle(t) ==
    /\ callers[t].pc = "init"
    /\ sys' = [init |-> TRUE, procs |-> refresh_processes({}, os_procs)]
    /\ lock' = FALSE
    /\ cell' = [state |-> "done", built |-> cell.built + 1, stored |-> cell.built + 1]
    /\ callers' = [callers EXCEPT ![t].pc = "lock", ![t].handle = cell.built + 1]
    /\ UNCHANGED os_procs
    /\ UNCHANGED notConc

\* .lock().unwrap()
Lock(t) ==
    /\ callers[t].pc = "lock"
    /\ mutex_free(lock)
    /\ lock' = TRUE
    /\ callers' = [callers EXCEPT ![t].pc = "locked"]
    /\ UNCHANGED <<os_procs, sys, cell>>
    /\ UNCHANGED notConc

\* refresh_processes / refresh_processes_specifics under the guard
Refresh(t) ==
    /\ callers[t].pc = "locked"
    /\ sys' = [sys EXCEPT !.procs = refresh_processes(sys.procs, os_procs)]
    /\ callers' = [callers EXCEPT ![t].pc = "refreshed",
                                  ![t].before = sys.procs,
                                  ![t].mine = os_procs]
    /\ UNCHANGED <<os_procs, lock, cell>>
    /\ UNCHANGED notConc

\* the filter over sys_handle.processes(), the check of the minimum in
\* children(), and the return, which drops the guard
Filter(t) ==
    /\ callers[t].pc = "refreshed"
    /\ LET c == callers[t]
           r == IF c.op = "children"
                THEN check_min_num_children(c.q,
                        children_filter(sys.procs, resolve_pid(c.q).pid))
                ELSE ListOk(list_filter(sys.procs, c.q))
       IN  /\ callers' = [callers EXCEPT ![t].pc = "done", ![t].result = r]
           /\ lock' = drop_guard(lock, r.kind)
    /\ UNCHANGED <<os_procs, sys, cell>>
    /\ UNCHANGED notConc

\* the caller has its result and is free to call again
Return(t) ==
    /\ callers[t].pc = "done"
    /\ callers' = [callers EXCEPT ![t] = CallerIdle]
    /\ UNCHANGED <<os_procs, sys, lock, cell>>
    /\ UNCHANGED notConc

\* a child of Root starts
ConcSpawn ==
    /\ \E p \in Processes :
        /\ p \notin os_procs
        /\ os_procs \cup {p} \in FamilyTables
        /\ os_procs' = os_procs \cup {p}
    /\ UNCHANGED <<sys, lock, cell, callers>>
    /\ UNCHANGED notConc

\* a child of Root ends
ConcExit ==
    /\ \E p \in os_procs \ {Root} : os_procs' = os_procs \ {p}
    /\ UNCHANGED <<sys, lock, cell, callers>>
    /\ UNCHANGED notConc

ConcNext ==
    \/ \E t \in Callers : CallChildren(t)
    \/ \E t \in Callers : CallListProcesses(t)
    \/ \E t \in Callers : GetOrInit(t)
    \/ \E t \in Callers : InitSysHandle(t)
    \/ \E t \in Callers : Lock(t)
    \/ \E t \in Callers : Refresh(t)
    \/ \E t \in Callers : Filter(t)
    \/ \E t \in Callers : Return(t)
    \/ ConcSpawn
    \/ ConcExit

ConcSpec == ConcInit /\ [][ConcNext]_vars

\* fair scheduling: a thread inside a call goes on running, the closure and
\* each refresh finish, and a thread that waits for a Mutex that is free
\* again and again gets it
ConcFairness ==
    \A t \in Callers :
        /\ WF_vars(GetOrInit(t))
        /\ WF_vars(InitSysHandle(t))
        /\ SF_vars(Lock(t))
        /\ WF_vars(Refresh(t))
        /\ WF_vars(Filter(t))

ConcFairSpec == ConcInit /\ [][ConcNext]_vars /\ ConcFairness

----------------------------------------------------------------------------
(* list_processes(): any build, any table of named processes, any chain of *)
(* process_id and process_name calls from ProcQuery::new()                 *)

ListInit ==
    /\ ScanIdle
    /\ LoadIdle
    /\ CliIdle
    /\ platform \in Platforms
    /\ sockets = <<>>
    /\ query = PortQueryNew
    /\ pc = "off"
    /\ reads = <<>>
    /\ result = NotReturned
    /\ failed = 0
    /\ RetryIdle
    /\ PairIdle
    /\ ChainIdle
    /\ ConcIdle
    /\ os_procs \in NamedTables
    /\ sys = [init |-> FALSE, procs |-> {}]
    /\ lock = FALSE
    /\ pquery = ProcQueryNew
    /\ ppc = "build"
    /\ target = 0
    /\ refreshed_at = {}
    /\ presult = ChildrenNotReturned
    /\ asked = None

ListProcessId ==
    /\ ppc = "build"
    /\ \E pid \in Pids : pquery' = proc_process_id(pquery, pid)
    /\ UNCHANGED <<os_procs, sys, lock, ppc, target, refreshed_at, presult, asked>>
    /\ UNCHANGED notList

ListProcessName ==
    /\ ppc = "build"
    /\ \E name \in ProcNames :
        /\ pquery' = process_name(pquery, name)
        /\ asked' = Some(name)
    /\ UNCHANGED <<os_procs, sys, lock, ppc, target, refreshed_at, presult>>
    /\ UNCHANGED notList

\* line 86: sys_handle().lock(): the first call constructs the System and
\* refreshes it once, then the Mutex is taken; no pid is resolved
ListLock ==
    /\ ppc = "build"
    /\ mutex_free(lock)
    /\ sys' = IF sys.init THEN sys
              ELSE [init |-> TRUE, procs |-> refresh_processes({}, os_procs)]
    /\ lock' = TRUE
    /\ ppc' = "locked"
    /\ UNCHANGED <<os_procs, pquery, target, refreshed_at, presult, asked>>
    /\ UNCHANGED notList

\* lines 87-91: refresh_processes_specifics under the guard
ListRefresh ==
    /\ ppc = "locked"
    /\ sys' = [sys EXCEPT !.procs = refresh_processes(sys.procs, os_procs)]
    /\ refreshed_at' = os_procs
    /\ ppc' = "refreshed"
    /\ UNCHANGED <<os_procs, lock, pquery, target, presult, asked>>
    /\ UNCHANGED notList

\* lines 92-114: filter, Ok(infos), the guard dropped
ListFilter ==
    /\ ppc = "refreshed"
    /\ presult' = ListOk(list_filter(sys.procs, pquery))
    /\ lock' = drop_guard(lock, "Ok")
    /\ ppc' = "done"
    /\ UNCHANGED <<os_procs, sys, pquery, target, refreshed_at, asked>>
    /\ UNCHANGED notList

\* a process ends
ListExit ==
    /\ ppc \in {"build", "locked", "refreshed"}
    /\ \E p \in os_procs : os_procs' = os_procs \ {p}
    /\ UNCHANGED <<sys, lock, pquery, ppc, target, refreshed_at, presult, asked>>
    /\ UNCHANGED notList

ListNext ==
    \/ ListProcessId
    \/ ListProcessName
    \/ ListLock
    \/ ListRefresh
    \/ ListFilter
    \/ ListExit

ListSpec == ListInit /\ [][ListNext]_vars

----------------------------------------------------------------------------
(* The command-line program, on any build, with any first argument *)

CliInit ==
    /\ ScanIdle
    /\ LoadIdle
    /\ platform \in Platforms
    /\ sockets = <<>>
    /\ query = PortQueryNew
    /\ pc = "off"
    /\ reads = <<>>
    /\ result = NotReturned
    /\ failed = 0
    /\ ProcIdle
    /\ RetryIdle
    /\ PairIdle
    /\ ChainIdle
    /\ ConcIdle
    /\ ListIdle
    /\ \E arg \in CliArgs : cli = CliStart(arg)

\* lines 4-6: without a first argument main does nothing and returns
CliArgument ==
    /\ cli.pc = "main"
    /\ cli' = IF cli.arg.some THEN [cli EXCEPT !.pc = "parse"] ELSE cli_exit(cli)
    /\ UNCHANGED portVars
    /\ UNCHANGED notCli

\* line 7: v.parse::<u32>().unwrap()
CliParse ==
    /\ cli.pc = "parse"
    /\ cli' = IF cli_parse(cli.arg.val).some
              THEN [cli EXCEPT !.pc = "execute", !.pid = cli_parse(cli.arg.val).val]
              ELSE cli_panic(cli)
    /\ UNCHANGED portVars
    /\ UNCHANGED notCli

\* lines 9-14: the query is built and executed
CliExecute ==
    /\ cli.pc = "execute"
    /\ \E table \in OsTables, failing \in Faults(cli_query(cli.pid)) :
        /\ failing > 0 => Len(table) <= MaxFaultSockets
        /\ query' = cli_query(cli.pid)
        /\ sockets' = table
        /\ failed' = failing
        /\ result' = execute(cli_query(cli.pid), table, failing)
        /\ reads' = execute_reads(cli_query(cli.pid), failing)
    /\ cli' = [cli EXCEPT !.pc = "print"]
    /\ UNCHANGED <<platform, pc>>
    /\ UNCHANGED notCli

\* lines 15-22: the ports go to stdout or the error to stderr, and main
\* returns
CliPrint ==
    /\ cli.pc = "print"
    /\ cli' = cli_exit(IF result.kind = "Ok"
                       THEN [cli EXCEPT !.stdout = Append(@, result.ports)]
                       ELSE [cli EXCEPT !.stderr = Append(@, result.kind)])
    /\ UNCHANGED portVars
    /\ UNCHANGED notCli

CliNext ==
    \/ CliArgument
    \/ CliParse
    \/ CliExecute
    \/ CliPrint

CliSpec == CliInit /\ [][CliNext]_vars

----------------------------------------------------------------------------
(* One Windows table load, while the table of the OS grows and shrinks *)

LoadInit ==
    /\ ScanIdle
    /\ PortIdle
    /\ ProcIdle
    /\ RetryIdle
    /\ PairIdle
    /\ ChainIdle
    /\ ConcIdle
    /\ ListIdle
    /\ CliIdle
    /\ \E kind \in {"tcp", "udp"}, family \in {4, 6} : load = LoadStart(kind, family)

\* load_tcp_table: GetExtendedTcpTable
LoadTcpCall ==
    /\ load.kind = "tcp"
    /\ load.pc = "call"
    /\ \E need \in TableSizes :
        \E reply \in ApiReplies(load.table_size, need) : load' = load_turn(load, reply)
    /\ UNCHANGED notLoad

\* load_udp_table: GetExtendedUdpTable
LoadUdpCall ==
    /\ load.kind = "udp"
    /\ load.pc = "call"
    /\ \E need \in TableSizes :
        \E reply \in ApiReplies(load.table_size, need) : load' = load_turn(load, reply)
    /\ UNCHANGED notLoad

LoadNext ==
    \/ LoadTcpCall
    \/ LoadUdpCall

LoadSpec == LoadInit /\ [][LoadNext]_vars

----------------------------------------------------------------------------
(* The macOS parsers on byte buffers: the state machine *)

ScanInit ==
    /\ PortIdle
    /\ ProcIdle
    /\ RetryIdle
    /\ PairIdle
    /\ ChainIdle
    /\ ConcIdle
    /\ ListIdle
    /\ CliIdle
    /\ LoadIdle
    /\ \E family \in {4, 6}, find_pid \in Pids :
        \E pieces \in PieceSeqs(family) :
            \E cut \in Cuts(pieces) :
                scan = ScanCall(family, pieces, cut, find_pid)

\* find_ports_v4: one iteration of the loop it is in
FindPortsV4 ==
    /\ scan.family = 4
    /\ scan.st.loop \in {"outer", "inner"}
    /\ scan' = [scan EXCEPT !.st = scan_step(4, scan.output, scan.find_pid, scan.st)]
    /\ UNCHANGED notScan

\* find_ports_v6: one iteration of the loop it is in
FindPortsV6 ==
    /\ scan.family = 6
    /\ scan.st.loop \in {"outer", "inner"}
    /\ scan' = [scan EXCEPT !.st = scan_step(6, scan.output, scan.find_pid, scan.st)]
    /\ UNCHANGED notScan

ScanNext ==
    \/ FindPortsV4
    \/ FindPortsV6

ScanSpec == ScanInit /\ [][ScanNext]_vars

----------------------------------------------------------------------------
(* The retry wrappers: the state machine *)

RetryInit ==
    /\ ScanIdle
    /\ LoadIdle
    /\ CliIdle
    /\ ListIdle
    /\ ConcIdle
    /\ ChainIdle
    /\ PairIdle
    /\ PortIdle
    /\ ProcIdle
    /\ rform \in {"sync", "async"}
    /\ rop \in {"execute", "children"}
    /\ rcount \in 0..MaxCount
    /\ rdelay \in Delays
    /\ rleft = IF rform = "sync" THEN retry_delays(rcount) ELSE rcount
    /\ rpc = "attempt"
    /\ rlog = <<>>
    /\ rresult = RetryNotReturned

\* retry::retry: call the operation; Ok returns; on Err take the next delay
\* of the iterator, or return the error when the iterator is empty
SyncAttempt ==
    /\ rform = "sync"
    /\ rpc = "attempt"
    /\ \E kind \in Outcomes(rop) :
        /\ rlog' = Append(rlog, Attempt(Attempts + 1, kind))
        /\ IF kind = "Ok"
           THEN /\ rresult' = RetryResult(Attempts + 1, kind)
                /\ rpc' = "done"
                /\ UNCHANGED rleft
           ELSE IF rleft > 0
           THEN /\ rleft' = rleft - 1
                /\ rpc' = "sleep"
                /\ UNCHANGED rresult
           ELSE /\ rresult' = RetryResult(Attempts + 1, kind)
                /\ rpc' = "done"
                /\ UNCHANGED rleft
    /\ UNCHANGED <<rform, rop, rcount, rdelay>>
    /\ UNCHANGED notRetry

\* retry::retry: std::thread::sleep(delay), then the next turn of the loop
SyncSleep ==
    /\ rform = "sync"
    /\ rpc = "sleep"
    /\ rlog' = Append(rlog, Sleep(rdelay))
    /\ rpc' = "attempt"
    /\ UNCHANGED <<rform, rop, rcount, rdelay, rleft, rresult>>
    /\ UNCHANGED notRetry

\* the async fn: match self.execute() { Ok => Ok, Err(e) => if count == 0
\* { Err(e) } else { sleep; recurse } }
AsyncAttempt ==
    /\ rform = "async"
    /\ rpc = "attempt"
    /\ \E kind \in Outcomes(rop) :
        /\ rlog' = Append(rlog, Attempt(Attempts + 1, kind))
        /\ IF kind = "Ok" \/ async_exhausted(rleft)
           THEN /\ rresult' = RetryResult(Attempts + 1, kind)
                /\ rpc' = "done"
           ELSE /\ rpc' = "sleep"
                /\ UNCHANGED rresult
    /\ UNCHANGED <<rform, rop, rcount, rdelay, rleft>>
    /\ UNCHANGED notRetry

\* tokio::time::sleep(delay).await, then the recursive call with count - 1
AsyncSleep ==
    /\ rform = "async"
    /\ rpc = "sleep"
    /\ rlog' = Append(rlog, Sleep(rdelay))
    /\ rleft' = rleft - 1
    /\ rpc' = "attempt"
    /\ UNCHANGED <<rform, rop, rcount, rdelay, rresult>>
    /\ UNCHANGED notRetry

RetryNext ==
    \/ SyncAttempt
    \/ SyncSleep
    \/ AsyncAttempt
    \/ AsyncSleep

RetrySpec == RetryInit /\ [][RetryNext]_vars

----------------------------------------------------------------------------
(* The two retry forms side by side: one operation, one delay, one count,  *)
(* and the n-th call of the operation returns the same to both forms       *)

PairInit ==
    /\ ScanIdle
    /\ LoadIdle
    /\ CliIdle
    /\ ListIdle
    /\ ConcIdle
    /\ ChainIdle
    /\ PortIdle
    /\ ProcIdle
    /\ RetryIdle
    /\ \E op \in {"execute", "children"}, count \in 0..MaxCount, delay \in Delays :
        pair = PairOf(op, count, delay)

PairSyncAttempt ==
    /\ pair.sync.pc = "attempt"
    /\ LET n == AttemptsIn(pair.sync.log) + 1
       IN  \E kind \in OutcomesAt(pair.op, pair.outs, n) :
            pair' = [pair EXCEPT !.sync = with_retry_sync_attempt(@, kind),
                                 !.outs = Recorded(@, n, kind)]
    /\ UNCHANGED notPair

PairSyncSleep ==
    /\ pair.sync.pc = "sleep"
    /\ pair' = [pair EXCEPT !.sync = with_retry_sync_sleep(@, pair.delay)]
    /\ UNCHANGED notPair

PairAsyncAttempt ==
    /\ pair.async.pc = "attempt"
    /\ LET n == AttemptsIn(pair.async.log) + 1
       IN  \E kind \in OutcomesAt(pair.op, pair.outs, n) :
            pair' = [pair EXCEPT !.async = with_retry_attempt(@, kind),
                                 !.outs = Recorded(@, n, kind)]
    /\ UNCHANGED notPair

PairAsyncSleep ==
    /\ pair.async.pc = "sleep"
    /\ pair' = [pair EXCEPT !.async = with_retry_sleep(@, pair.delay)]
    /\ UNCHANGED notPair

PairNext ==
    \/ PairSyncAttempt
    \/ PairSyncSleep
    \/ PairAsyncAttempt
    \/ PairAsyncSleep

PairSpec == PairInit /\ [][PairNext]_vars

----------------------------------------------------------------------------
(* A chain of builder calls from PortQuery::new(), every call recorded *)

ChainInit ==
    /\ ScanIdle
    /\ LoadIdle
    /\ CliIdle
    /\ ListIdle
    /\ ConcIdle
    /\ PortIdle
    /\ ProcIdle
    /\ RetryIdle
    /\ PairIdle
    /\ chain = ChainNew

\* any builder call on the query built so far
ChainCall ==
    /\ Len(chain.calls) < MaxCalls
    /\ \E c \in BuilderCalls :
        chain' = [q |-> Apply(chain.q, c), calls |-> Append(chain.calls, c)]
    /\ UNCHANGED notChain

ChainNext == ChainCall

ChainSpec == ChainInit /\ [][ChainNext]_vars

----------------------------------------------------------------------------
(* The port query: any build, any socket table, any chain of builder calls *)
(* from PortQuery::new(), then execute()                                   *)

Init ==
    /\ ScanIdle
    /\ LoadIdle
    /\ CliIdle
    /\ ListIdle
    /\ ConcIdle
    /\ ChainIdle
    /\ PairIdle
    /\ platform \in Platforms
    /\ sockets = <<>>
    /\ query = PortQueryNew
    /\ pc = "build"
    /\ reads = <<>>
    /\ result = NotReturned
    /\ failed = 0
    /\ ProcIdle
    /\ RetryIdle

Build(q) ==
    /\ pc = "build"
    /\ query' = q
    /\ UNCHANGED <<platform, sockets, pc, reads, result, failed>>
    /\ UNCHANGED notPort

IpV4Only == Build(ip_v4_only(query))
IpV6Only == Build(ip_v6_only(query))
TcpOnly == Build(tcp_only(query))
UdpOnly == Build(udp_only(query))
ExpectMinNumPorts == \E n \in 0..MaxMin : Build(expect_min_num_ports(query, n))
ProcessId == \E pid \in Pids : Build(process_id(query, pid))
ProcessIdFromChild == \E pid \in Pids : Build(process_id_from_child(query, [id |-> pid]))

Execute ==
    /\ pc = "build"
    /\ \E table \in OsTables, failing \in Faults(query) :
        \E unreadable \in FdErrs(query, table) :
            LET socks == FdErr(table, unreadable)
            IN  /\ (failing > 0 \/ unreadable > 0) => Len(socks) <= MaxFaultSockets
                /\ sockets' = socks
                /\ failed' = failing
                /\ result' = execute(query, socks, failing)
                /\ reads' = execute_reads(query, failing)
    /\ pc' = "done"
    /\ UNCHANGED <<platform, query>>
    /\ UNCHANGED notPort

Next ==
    \/ IpV4Only
    \/ IpV6Only
    \/ TcpOnly
    \/ UdpOnly
    \/ ExpectMinNumPorts
    \/ ProcessId
    \/ ProcessIdFromChild
    \/ Execute

Spec == Init /\ [][Next]_vars

----------------------------------------------------------------------------
(* One caller: execute() on a PortQuery, then children() on a ProcQuery *)

\* the queries one builder call away from new()
CallerQueries == {PortQueryNew} \cup {Apply(PortQueryNew, c) : c \in BuilderCalls}

CallerInit ==
    /\ RetryIdle
    /\ PairIdle
    /\ ChainIdle
    /\ ConcIdle
    /\ ListIdle
    /\ CliIdle
    /\ LoadIdle
    /\ ScanIdle
    /\ platform \in Platforms
    /\ sockets = <<>>
    /\ query \in CallerQueries
    /\ pc = "build"
    /\ reads = <<>>
    /\ result = NotReturned
    /\ failed = 0
    /\ os_procs \in {t \in FamilyTables : Cardinality(t) = Cardinality(Pids)}
    /\ sys \in {[init |-> FALSE, procs |-> {}], [init |-> TRUE, procs |-> {Root}]}
    /\ lock = FALSE
    /\ pquery \in {ProcQueryNew, proc_process_id(ProcQueryNew, Root.pid)}
    /\ ppc = "build"
    /\ target = 0
    /\ refreshed_at = {}
    /\ presult = ChildrenNotReturned

\* children() is called when execute() has returned
CallerNext ==
    \/ Execute
    \/ (pc = "done" /\ ChildrenResolve)
    \/ (pc = "done" /\ ChildrenLock)
    \/ (pc = "done" /\ ChildrenRefresh)
    \/ (pc = "done" /\ ChildrenFilter)

CallerSpec == CallerInit /\ [][CallerNext]_vars

----------------------------------------------------------------------------
(* Properties of execute() *)

Returned == pc = "done"

\* the ports execute() handed back, in Ok or in TooFewPorts
Emitted == IF result.kind \in {"Ok", "TooFewPorts"} THEN result.ports ELSE <<>>

\* the list the platform reader matched for the query
Matched ==
    IF platform = "other" THEN <<>>
    ELSE list_ports_for_pid(query, query.process_id.val, sockets)

\* the socket a port belongs to (every socket of a table has its own port)
SocketsOfPort(port) == {i \in 1..Len(sockets) : sockets[i].port = port}

\* C1: when the reader matched the list L, execute() returns TooFewPorts(L, n)
\* if a minimum n was set and len(L) < n, and Ok(L) otherwise (len(L) = n
\* included).
C1_MinNumPorts ==
    (Returned /\ result.kind \notin {"ConfigurationError", "ProcessError"}) =>
        IF query.min_num_ports.some /\ Len(Matched) < query.min_num_ports.val
        THEN /\ result.kind = "TooFewPorts"
             /\ result.ports = Matched
             /\ result.num = query.min_num_ports.val
        ELSE /\ result.kind = "Ok"
             /\ result.ports = Matched

\* the test's case: one port found, two expected
C1_Witness ==
    /\ Returned
    /\ result.kind = "TooFewPorts"
    /\ Len(result.ports) = 1
    /\ result.num = 2

\* the boundary: exactly as many ports as the minimum
C1_WitnessEqual ==
    /\ Returned
    /\ result.kind = "Ok"
    /\ query.min_num_ports = Some(2)
    /\ Len(result.ports) = 2

C3_OnlyPortsOfTarget ==
    Returned =>
        \A k \in 1..Len(Emitted) :
            \E i \in SocketsOfPort(Emitted[k].port) :
                sockets[i].pid = query.process_id.val

\* C4: every emitted port is the port of a socket of an address family the
\* query selects.
C4_OnlySelectedFamily ==
    Returned =>
        \A k \in 1..Len(Emitted) :
            \A i \in SocketsOfPort(Emitted[k].port) :
                /\ sockets[i].family = 4 => query.ipv4_addresses
                /\ sockets[i].family = 6 => query.ipv6_addresses

\* C5: every emitted port carries the tag of the table its socket is in, and
\* the tag is one the query selects.
C5_TagOfTable ==
    Returned =>
        \A k \in 1..Len(Emitted) :
            /\ \A i \in SocketsOfPort(Emitted[k].port) :
                 Emitted[k].tag = (IF sockets[i].proto = "tcp" THEN "Tcp" ELSE "Udp")
            /\ Emitted[k].tag = "Tcp" => query.tcp_addresses
            /\ Emitted[k].tag = "Udp" => query.udp_addresses

\* C6: a TCP socket is emitted only when it is listening, and a UDP socket of
\* the target in a selected family is emitted whatever its state.
C6_TcpListenOnly ==
    (Returned /\ result.kind \in {"Ok", "TooFewPorts"}) =>
        /\ \A k \in 1..Len(Emitted) :
             \A i \in SocketsOfPort(Emitted[k].port) :
                 sockets[i].proto = "tcp" => sockets[i].state = "Listen"
        /\ platform # "other" =>
             \A i \in 1..Len(sockets) :
                 ( /\ sockets[i].proto = "udp"
                   /\ sockets[i].pid = query.process_id.val
                   /\ query.udp_addresses
                   /\ (sockets[i].family = 4 => query.ipv4_addresses)
                   /\ (sockets[i].family = 6 => query.ipv6_addresses) )
                 => \E k \in 1..Len(Emitted) : Emitted[k].port = sockets[i].port

----------------------------------------------------------------------------
(* Properties of children() *)

ChildrenReturned == ppc = "done" /\ presult.kind \in {"Ok", "TooFewChildren"}

\* the processes of the table children() refreshed from whose parent is the
\* target
ChildrenAtRefresh ==
    {p \in refreshed_at : p.parent.some /\ p.parent.val = pquery.process_id.val}

\* C7: children() without a minimum, or with the minimum met, returns exactly
\* the processes of the refreshed table whose parent is the target; with none
\* and a minimum n > 0 it returns TooFewChildren(0, n).
C7_ExactlyChildren ==
    ChildrenReturned =>
        /\ (~pquery.min_num_children.some
            \/ Cardinality(ChildrenAtRefresh) >= pquery.min_num_children.val)
           => presult = ChildrenOk(ChildrenAtRefresh)
        /\ (/\ ChildrenAtRefresh = {}
            /\ pquery.min_num_children.some
            /\ pquery.min_num_children.val > 0)
           => presult = TooFewChildren(0, pquery.min_num_children.val)

\* a child returned although the live table no longer has it, and the
\* target itself alive and left out
C7_Witness ==
    /\ ChildrenReturned
    /\ presult.kind = "Ok"
    /\ presult.children # {}
    /\ \E p \in refreshed_at : p.pid = pquery.process_id.val
    /\ os_procs # refreshed_at

C7_WitnessNone ==
    /\ ChildrenReturned
    /\ presult = TooFewChildren(0, 1)
    /\ refreshed_at # {}

\* C8 as stated: the TooFewChildren error has the short list of the children
\* that were found attached to it.
C8_ErrorCarriesList ==
    (ppc = "done" /\ presult.kind = "TooFewChildren") =>
        presult.children = ChildrenAtRefresh

\* C8 amended: when children() finds fewer than the n children required, it
\* fails with TooFewChildren carrying the number of children found and n; the
\* list of the children found is not attached.
C8_ErrorCarriesCount ==
    /\ (ppc = "done" /\ presult.kind = "TooFewChildren") =>
          /\ presult.found = Cardinality(ChildrenAtRefresh)
          /\ presult.num = pquery.min_num_children.val
          /\ presult.found < presult.num
          /\ presult.children = {}
    /\ (/\ ppc = "done"
        /\ pquery.process_id.some
        /\ pquery.min_num_children.some
        /\ Cardinality(ChildrenAtRefresh) < pquery.min_num_children.val)
       => presult.kind = "TooFewChildren"

C8_Witness ==
    /\ ppc = "done"
    /\ presult.kind = "TooFewChildren"
    /\ presult.found = 1
    /\ presult.num = 2

----------------------------------------------------------------------------
(* Properties of the retry wrappers *)

RetryReturned == rpc = "done"

\* C9: a retry call with count c runs the operation one attempt at a time,
\* returns the first success at once, sleeps the fixed delay exactly once
\* between two attempts, makes at most c + 1 attempts, and when all fail
\* returns the error of the last attempt.
C9_BoundedRetry ==
    /\ Attempts <= rcount + 1
    /\ \A i \in 1..Len(rlog) :
         /\ rlog[i].ev = (IF i % 2 = 1 THEN "op" ELSE "sleep")
         /\ rlog[i].ev = "op" => rlog[i].n = (i + 1) \div 2
         /\ rlog[i].ev = "sleep" => rlog[i].dur = rdelay
         /\ (rlog[i].ev = "op" /\ i < Len(rlog)) => rlog[i].kind # "Ok"
    /\ RetryReturned =>
         /\ rlog # <<>>
         /\ rlog[Len(rlog)].ev = "op"
         /\ rresult = RetryResult(Attempts, rlog[Len(rlog)].kind)
         /\ Sleeps = Attempts - 1
         /\ rresult.kind # "Ok" => Attempts = rcount + 1
    /\ (rpc = "attempt" /\ rlog # <<>>) => rlog[Len(rlog)].ev = "sleep"
    /\ rpc = "sleep" => rlog[Len(rlog)].ev = "op" /\ rlog[Len(rlog)].kind # "Ok"

\* every attempt of the budget failed: the last error comes back
C9_WitnessExhausted ==
    /\ RetryReturned
    /\ rcount = 2
    /\ Attempts = 3
    /\ rlog[1].kind = "ConfigurationError"
    /\ rresult.kind \in {"TooFewPorts", "TooFewChildren"}

\* a success after a failure ends the call with budget left
C9_Witness ==
    /\ RetryReturned
    /\ rform = "async"
    /\ rcount = 3
    /\ Attempts = 2
    /\ rresult = RetryResult(2, "Ok")

\* C10: with count 0 a retry call runs the operation once, never sleeps and
\* returns that call's result unchanged.
C10_CountZeroIsOneCall ==
    rcount = 0 =>
        /\ rpc # "sleep"
        /\ Sleeps = 0
        /\ Attempts <= 1
        /\ RetryReturned =>
             /\ Attempts = 1
             /\ rresult = RetryResult(1, rlog[1].kind)

C10_Witness ==
    /\ rcount = 0
    /\ RetryReturned
    /\ rform = "sync"
    /\ rop = "children"
    /\ rresult = RetryResult(1, "TooFewChildren")

\* C11: called with the same operation, delay and count, and the n-th call of
\* the operation returning the same to both, the blocking and the async form
\* make the same calls and sleeps in the same order (at every moment the
\* shorter log is the start of the longer) and return the same result.
C11_SameRun ==
    LET s == pair.sync
        a == pair.async
        m == IF Len(s.log) <= Len(a.log) THEN Len(s.log) ELSE Len(a.log)
    IN  /\ SubSeq(s.log, 1, m) = SubSeq(a.log, 1, m)
        /\ (s.pc = "done" /\ a.pc = "done") =>
            /\ s.log = a.log
            /\ s.result = a.result

\* both forms ran out of retries: count + 1 failing calls, count sleeps
C11_Witness ==
    /\ pair.sync.pc = "done"
    /\ pair.async.pc = "done"
    /\ pair.count = 2
    /\ pair.sync.result = RetryResult(3, "ConfigurationError")
    /\ AttemptsIn(pair.async.log) = 3
    /\ Len(pair.async.log) = 5

\* both forms succeeded at the second call, after one sleep
C11_WitnessOk ==
    /\ pair.sync.pc = "done"
    /\ pair.async.pc = "done"
    /\ pair.count = 3
    /\ pair.async.result = RetryResult(2, "Ok")
    /\ Len(pair.sync.log) = 3

C12_WitnessLsof ==
    /\ Returned
    /\ platform = "macos"
    /\ failed = 2
    /\ Len(reads) = 2
    /\ result.kind = "ProcessError"

\* the name of the last call of the chain among names, "none" when there is
\* no such call
LastOf(names) ==
    LET at == {i \in 1..Len(chain.calls) : chain.calls[i].name \in names}
    IN  IF at = {} THEN "none"
        ELSE chain.calls[CHOOSE i \in at : \A j \in at : j <= i].name

\* C13: after any chain of builder calls the family filter is the one of the
\* last ip_v4_only/ip_v6_only call (both families when there is none) and the
\* protocol filter the one of the last tcp_only/udp_only call (both protocols
\* when there is none), whatever calls came before.
C13_LastCallWins ==
    /\ <<chain.q.ipv4_addresses, chain.q.ipv6_addresses>> =
        CASE LastOf({"ip_v4_only", "ip_v6_only"}) = "ip_v4_only" -> <<TRUE, FALSE>>
          [] LastOf({"ip_v4_only", "ip_v6_only"}) = "ip_v6_only" -> <<FALSE, TRUE>>
          [] OTHER -> <<TRUE, TRUE>>
    /\ <<chain.q.tcp_addresses, chain.q.udp_addresses>> =
        CASE LastOf({"tcp_only", "udp_only"}) = "tcp_only" -> <<TRUE, FALSE>>
          [] LastOf({"tcp_only", "udp_only"}) = "udp_only" -> <<FALSE, TRUE>>
          [] OTHER -> <<TRUE, TRUE>>

\* ip_v4_only().ip_v6_only() selects IPv6 only
C13_Witness ==
    /\ chain.calls = <<Call("ip_v4_only", 0), Call("ip_v6_only", 0)>>
    /\ chain.q.ipv6_addresses
    /\ ~chain.q.ipv4_addresses

\* udp_only(), a call on the other axis, then tcp_only()
C13_WitnessProtocol ==
    /\ chain.calls = <<Call("udp_only", 0), Call("ip_v6_only", 0), Call("tcp_only", 0)>>
    /\ chain.q.tcp_addresses
    /\ ~chain.q.udp_addresses
    /\ chain.q.ipv6_addresses

----------------------------------------------------------------------------
(* Properties of concurrent children() and list_processes() calls *)

\* the threads between the return of lock() and the end of their filter
Inside == {t \in Callers : callers[t].pc \in {"locked", "refreshed"}}

\* the threads in a call that has not returned yet and that wants the snapshot
Calling == {t \in Callers : callers[t].pc \in {"get", "init", "lock", "locked", "refreshed"}}

\* C14: whatever the interleaving of children() and list_processes() calls,
\* at most one call is between its refresh and the end of its filter, the
\* Mutex is held all that time, and the table the call is about to filter is
\* the one its own refresh produced.
C14_Serialised ==
    /\ Cardinality(Inside) <= 1
    /\ Inside # {} => lock
    /\ \A t \in Callers :
        callers[t].pc = "refreshed" => sys.procs = callers[t].mine

\* one call has refreshed and not filtered yet, the process table of the OS
\* has changed since, and the other caller waits for the Mutex
C14_Witness ==
    \E t, u \in Callers :
        /\ callers[t].pc = "refreshed"
        /\ callers[u].pc = "lock"
        /\ callers[t].op = "children"
        /\ callers[u].op = "list_processes"
        /\ os_procs # sys.procs

C16_AlwaysRefreshed ==
    \A t \in Callers :
        (/\ callers[t].op = "children"
         /\ callers[t].pc = "done"
         /\ resolve_pid(callers[t].q).ok) =>
            callers[t].result =
                check_min_num_children(callers[t].q,
                    children_filter(callers[t].mine, resolve_pid(callers[t].q).pid))

\* a second call: the first one found no child; a child started since and is
\* in the result of the second
C16_Witness ==
    \E t, u \in Callers :
        /\ callers[u].pc = "done"
        /\ callers[u].op = "children"
        /\ callers[u].result = ChildrenOk({})
        /\ callers[t].pc = "done"
        /\ callers[t].op = "children"
        /\ callers[t].before = callers[u].mine
        /\ callers[t].result.kind = "Ok"
        /\ callers[t].result.children # {}

\* a later call: the snapshot left by the call before held a child that has
\* ended since, and the result is empty
C16_WitnessExited ==
    \E t \in Callers :
        /\ callers[t].pc = "done"
        /\ callers[t].op = "children"
        /\ children_filter(callers[t].before, Root.pid) # {}
        /\ callers[t].result = ChildrenOk({})

\* C17: one System and one Mutex are constructed, at the first access and
\* not before; every caller past sys_handle() holds that one instance; and
\* once stored it is never replaced or torn down.
C17_Singleton ==
    /\ [](/\ cell.built <= 1
          /\ cell.state = "done" <=> cell.built = 1
          /\ sys.init <=> cell.state = "done"
          /\ cell.state = "done" => cell.stored = 1
          /\ \A t \in Callers :
                callers[t].pc \in {"lock", "locked", "refreshed"} =>
                    callers[t].handle = 1)
    /\ [][cell.state = "done" => (cell' = cell /\ sys'.init)]_vars

\* two first calls at the same time: both came out of sys_handle() with the
\* one instance, constructed once
C17_Witness ==
    /\ \A t \in Callers : callers[t].pc = "lock" /\ callers[t].handle = 1
    /\ cell.built = 1
    /\ ~lock

----------------------------------------------------------------------------
(* Properties of list_processes() *)

ListReturned == ppc = "done" /\ presult.kind # "NotReturned"

\* the processes of the table list_processes() refreshed that have the
\* configured pid, if one was set, and the name given, if one was set
ListMatching(name) ==
    {p \in refreshed_at :
        /\ pquery.process_id.some => p.pid = pquery.process_id.val
        /\ asked.some => p.name = name}

\* C18 as stated: list_processes() returns the processes of the refreshed
\* table whose pid is the configured pid, when one is set, and whose name is
\* exactly the name passed to process_name, when one was passed; it never
\* fails with ConfigurationError.
C18_ExactNameAsConfigured ==
    ListReturned => presult = ListOk(ListMatching(asked.val))

\* the name the comparison uses: on Windows the configured name with ".exe"
\* added, unless it ends with it
ComparedName ==
    IF platform = "windows" /\ asked.val[Len(asked.val)] # ".exe"
    THEN asked.val \o <<".exe">>
    ELSE asked.val

\* C18, amended: list_processes() returns exactly the processes of the
\* refreshed table that match every criterion that is set: the configured
\* pid, and the configured name, compared exactly, on Windows after ".exe"
\* was added to a name that lacks it; with neither set it returns every
\* process; it never fails with ConfigurationError.
C18_ExactlyMatching ==
    ListReturned => presult = ListOk(ListMatching(ComparedName))

\* Windows, process_id(1).process_name("waiter"): the process 1 named
\* waiter.exe is returned, the process 2 of the same name is not
C18_Witness ==
    /\ ListReturned
    /\ platform = "windows"
    /\ asked = Some(<<"waiter">>)
    /\ pquery.process_id = Some(1)
    /\ [pid |-> 2, parent |-> None, name |-> <<"waiter", ".exe">>] \in refreshed_at
    /\ presult = ListOk({[pid |-> 1, parent |-> None, name |-> <<"waiter", ".exe">>]})

\* no criterion set: every process of the table, and no ConfigurationError
C18_WitnessAll ==
    /\ ListReturned
    /\ pquery = ProcQueryNew
    /\ Cardinality(refreshed_at) = 2
    /\ presult = ListOk(refreshed_at)

----------------------------------------------------------------------------
(* Properties of the command-line program *)

\* C19: the program exits with code 0 when execute() succeeded, and with a
\* code other than 0 when no argument was given and when execute() returned
\* an error.
C19_ExitCodes ==
    cli.exited =>
        /\ result.kind = "Ok" => cli.code = 0
        /\ ~cli.arg.some => cli.code # 0
        /\ result.kind \in {"ConfigurationError", "ProcessError", "TooFewPorts"} =>
            cli.code # 0

----------------------------------------------------------------------------
(* Properties of the Windows table load *)

Insufficient(i) == load.replies[i].code = "ERROR_INSUFFICIENT_BUFFER"

\* C20: a table load calls the API at most 3 times; every reply before the
\* last is insufficient-buffer and the buffer has then the size that reply
\* reported; another error returns ProcessError at once; the first NO_ERROR
\* returns Ok with the buffer, whose size is the one the reply before
\* reported; a third insufficient-buffer reply returns ProcessError.
C20_LoadLoop ==
    LET n == Len(load.replies)
    IN  /\ load.calls = n
        /\ n <= 3
        /\ \A i \in 1..(n - 1) : Insufficient(i)
        /\ load.pc = "call" =>
            /\ \A i \in 1..n : Insufficient(i)
            /\ load.table = (IF n = 0 THEN 0 ELSE load.replies[n].size)
        /\ load.pc = "done" =>
            /\ n >= 1
            /\ load.result =
                (IF load.replies[n].code = "NO_ERROR" THEN "Ok" ELSE "ProcessError")
            /\ Insufficient(n) => n = 3
            /\ load.result = "Ok" => (n >= 2 /\ load.table = load.replies[n - 1].size)

\* the table grew between the first and the second call: the third call
\* succeeds, with the buffer of the size the second reply reported
C20_Witness ==
    /\ load.pc = "done"
    /\ load.result = "Ok"
    /\ load.calls = 3
    /\ load.replies[1].size < load.replies[2].size
    /\ load.table = load.replies[2].size

\* the table grew before every call: three insufficient-buffer replies
C20_WitnessGaveUp ==
    /\ load.pc = "done"
    /\ load.result = "ProcessError"
    /\ load.calls = 3
    /\ Insufficient(3)

\* the sockets of the table the target holds open, by descriptors that could
\* be read
HeldByTarget ==
    SelectSeq(sockets, LAMBDA r : r.pid = query.process_id.val /\ ~r.fd_err)

\* the rows of a sequence of sockets of one protocol and family, as ports
PortsOfRows(rows, proto, family) ==
    LET sel == SelectSeq(rows, LAMBDA r : r.proto = proto /\ r.family = family)
    IN  [i \in 1..Len(sel) |-> sel[i].port]

\* C21: on Linux a query with tcp_only().ip_v4_only() returns exactly one
\* Tcp(local port) per row of the IPv4 TCP table whose inode is one of the
\* target's sockets and whose state is Listen, in table order, and nothing
\* else; in general the Udp elements returned are one Udp(local port) per row
\* of the UDP tables read (IPv4, then IPv6 when enabled) whose inode is one
\* of the target's sockets.
C21_LinuxRows ==
    (Returned /\ platform = "linux" /\ result.kind \in {"Ok", "TooFewPorts"}) =>
        /\ (/\ query.tcp_addresses /\ ~query.udp_addresses
            /\ query.ipv4_addresses /\ ~query.ipv6_addresses) =>
               Emitted = MapTcp(PortsOfRows(
                   SelectSeq(HeldByTarget, LAMBDA r : r.state = "Listen"), "tcp", 4))
        /\ SelectSeq(Emitted, LAMBDA e : e.tag = "Udp") =
               IF query.udp_addresses
               THEN MapUdp(PortsOfRows(HeldByTarget, "udp", 4)
                           \o (IF query.ipv6_addresses
                               THEN PortsOfRows(HeldByTarget, "udp", 6) ELSE <<>>))
               ELSE <<>>

\* the test's case: the target has one listening IPv4 TCP socket, beside a
\* socket of another process, and the list holds that socket's port alone
C21_Witness ==
    /\ Returned /\ platform = "linux"
    /\ query.tcp_addresses /\ ~query.udp_addresses
    /\ query.ipv4_addresses /\ ~query.ipv6_addresses
    /\ Len(sockets) = 2
    /\ \E i \in 1..2 :
          /\ sockets[i].pid = query.process_id.val
          /\ sockets[i].proto = "tcp" /\ sockets[i].family = 4
          /\ sockets[i].state = "Listen"
          /\ sockets[3 - i].pid # query.process_id.val
          /\ result = Ok(<<Tcp(sockets[i].port)>>)

\* an established connection of the target is left out
C21_WitnessEstablished ==
    /\ Returned /\ platform = "linux"
    /\ query.tcp_addresses /\ ~query.udp_addresses
    /\ query.ipv4_addresses /\ ~query.ipv6_addresses
    /\ \E i \in 1..Len(sockets) :
          /\ sockets[i].pid = query.process_id.val /\ ~sockets[i].fd_err
          /\ sockets[i].proto = "tcp" /\ sockets[i].family = 4
          /\ sockets[i].state = "Established"
    /\ result = Ok(<<>>)

\* the parser has returned
Scanned == scan.st.loop = "done"

\* the names lsof prints for the sockets of one family
LsofNames(family) ==
    IF family = 4 THEN {Wild8, Host9} ELSE {Wild8, V6Host7, V6Host6}

\* the buffer is a sequence of whole records with numeric pids whose name
\* fields are names lsof prints for the family
WellFormed ==
    /\ scan.cut = 0
    /\ \A i \in 1..Len(scan.pieces) :
          /\ scan.pieces[i].kind = "record"
          /\ scan.pieces[i].pid \in {Decimal(p) : p \in Pids}
          /\ \A j \in 1..Len(scan.pieces[i].names) :
                scan.pieces[i].names[j] \in LsofNames(scan.family)

RECURSIVE PortsOfNames(_)
PortsOfNames(names) ==
    IF names = <<>> THEN <<>>
    ELSE <<DigitsValue(Head(names).port)>> \o PortsOfNames(Tail(names))

RECURSIVE PortsOfRecords(_, _)
\* the ports of the name fields of the records of one pid, in buffer order
PortsOfRecords(pieces, find_pid) ==
    IF pieces = <<>> THEN <<>>
    ELSE (IF Head(pieces).pid = Decimal(find_pid)
          THEN PortsOfNames(Head(pieces).names) ELSE <<>>)
         \o PortsOfRecords(Tail(pieces), find_pid)

\* C22: for every well-formed lsof buffer the macOS parser scans to the end
\* of the buffer and returns, in buffer order, exactly the ports of all name
\* fields of all records of the target pid.
C22_AllPortsOfTarget ==
    (Scanned /\ WellFormed) =>
        /\ scan.st.out = PortsOfRecords(scan.pieces, scan.find_pid)
        /\ scan.st.index >= Len(scan.output)

\* the names of the family whose port text takes the parser past the host
\* (the IPv6 wildcard name has no `]`)
HostNames(family) == IF family = 4 THEN {Wild8, Host9} ELSE {V6Host7, V6Host6}

\* name fields whose port is no u16
WideNames(family) == IF family = 4 THEN {Wide4} ELSE {Wide6}

\* the buffer is a sequence of whole records, well-formed but for numeric
\* fields that do not parse: a pid that is no u32, a port that is no u16
NumbersApart ==
    /\ scan.cut = 0
    /\ \A i \in 1..Len(scan.pieces) :
          /\ scan.pieces[i].kind = "record"
          /\ \A j \in 1..Len(scan.pieces[i].names) :
                scan.pieces[i].names[j]
                    \in HostNames(scan.family) \cup WideNames(scan.family)

\* the record has a field that does not parse
Unparsed(piece) ==
    \/ piece.pid \notin {Decimal(p) : p \in Pids}
    \/ \E j \in 1..Len(piece.names) : piece.names[j] \in WideNames(scan.family)

\* C23: a numeric field that does not parse (a pid as u32, a port as u16)
\* drops only its record: the ports of the other records of the target pid,
\* the later ones included, are returned.
C23_DropsOnlyTheRecord ==
    (Scanned /\ NumbersApart) =>
        scan.st.out =
            PortsOfRecords(SelectSeq(scan.pieces, LAMBDA r : ~Unparsed(r)),
                           scan.find_pid)

\* the outer loop is at a byte of the buffer that is no `p` tag
NoTag(st) ==
    /\ st.loop = "outer"
    /\ st.index < Len(scan.output)
    /\ At(scan.output, st.index) # TagP

\* a is a prefix of b
IsPrefix(a, b) == Len(a) <= Len(b) /\ SubSeq(b, 1, Len(a)) = a

\* C24: when the parser is where a record must start and the byte there is
\* no `p` tag, it stops and returns the ports pushed so far; no step of the
\* parser takes a port back, so the result begins with every port pushed
\* before.
C24_StopsAtNoTag ==
    [][/\ NoTag(scan.st) => (scan'.st.loop = "done" /\ scan'.st.out = scan.st.out)
       /\ IsPrefix(scan.st.out, scan'.st.out)]_vars

\* the parser stopped at a byte that is no tag and returned the port of the
\* record before it, with records left in the buffer
C24_Witness ==
    /\ Scanned
    /\ NoTag([scan.st EXCEPT !.loop = "outer"])
    /\ scan.st.reads = {scan.st.index} /\ scan.st.slices = {}
    /\ scan.st.out # <<>>
    /\ scan.st.index + 1 < Len(scan.output)

\* a buffer of IPv4 records that begins with a byte that is no tag
C24_WitnessFirstByte ==
    /\ Scanned
    /\ scan.family = 4
    /\ scan.st.index = 0
    /\ NoTag([scan.st EXCEPT !.loop = "outer"])
    /\ scan.st.reads = {0} /\ scan.st.slices = {}
    /\ Len(scan.pieces) > 1
    /\ scan.st.out = <<>>

\* the name fields with a host of the family's form: host:port with the
\* connected form host:port->host:port for IPv4, [host]:port for IPv6
FormNames(family) ==
    IF family = 4 THEN {Wild8, Host9, Peer8, Wide4} ELSE {V6Host7, V6Host6, Wide6}

\* the buffer is a sequence of whole records with numeric pids whose names
\* have the family's form
NamesInForm ==
    /\ scan.cut = 0
    /\ \A i \in 1..Len(scan.pieces) :
          /\ scan.pieces[i].kind = "record"
          /\ scan.pieces[i].pid \in {Decimal(p) : p \in Pids}
          /\ \A j \in 1..Len(scan.pieces[i].names) :
                scan.pieces[i].names[j] \in FormNames(scan.family)

\* the bytes of a name after its last `:` (IPv4) or after its `]:` (IPv6):
\* the port text of the name, which holds no `:`
PortText(name) == name.port

RECURSIVE PortsAfterColon(_)
\* the port texts of the names that are a u16, as numbers
PortsAfterColon(names) ==
    IF names = <<>> THEN <<>>
    ELSE LET text == PortText(Head(names))
             port == ParseUnsigned(text, 0, Len(text), U16Max)
         IN  (IF port.some THEN <<port.val>> ELSE <<>>)
             \o PortsAfterColon(Tail(names))

RECURSIVE PortsByForm(_, _)
PortsByForm(pieces, find_pid) ==
    IF pieces = <<>> THEN <<>>
    ELSE (IF Head(pieces).pid = Decimal(find_pid)
          THEN PortsAfterColon(Head(pieces).names) ELSE <<>>)
         \o PortsByForm(Tail(pieces), find_pid)

\* C25: of a name field of a record of the target pid the parser takes as
\* the port the bytes after the last `:` of the field (IPv4, also when the
\* field holds more than one `:`) or after the closing `]:` (IPv6), up to
\* the null byte that ends the field.
C25_PortAfterLastColon ==
    (Scanned /\ NamesInForm) =>
        scan.st.out = PortsByForm(scan.pieces, scan.find_pid)

\* every byte the last iteration read lies in the buffer, and every slice it
\* took has start <= end <= len
InBounds ==
    /\ \A i \in scan.st.reads : i >= 0 /\ i < Len(scan.output)
    /\ \A sl \in scan.st.slices : sl[1] <= sl[2] /\ sl[2] <= Len(scan.output)

\* the parser is at the head of an iteration
Scanning == scan.st.loop \in {"outer", "inner"}

\* C26: on every buffer (empty, whole, cut at any place of a piece, bytes
\* that are no record) and for every target pid both parsers read no byte at
\* an index >= len and take no slice with start > end or end > len, also
\* after the skips of the null byte and the newline; every iteration after
\* which a loop goes on has moved the index forward, and no iteration begins
\* with the index more than three past the end of the buffer, so the loops
\* end after at most len + 4 iterations.
C26_InBoundsAndReturns ==
    [][/\ InBounds'
       /\ scan'.st.loop # "done" => scan'.st.index > scan.st.index
       /\ Scanning => scan.st.index <= Len(scan.output) + 3]_vars

\* a buffer cut inside a field: the skips of the null byte and the newline
\* took the index past the end, and the parser returned
C26_Witness ==
    /\ Scanned
    /\ scan.cut > 0
    /\ scan.output # <<>>
    /\ scan.st.index > Len(scan.output)

\* the empty buffer
C26_WitnessEmpty ==
    /\ Scanned
    /\ scan.output = <<>>

\* execute() returns in this step, called on a query without a pid
ExecuteNoPid == pc = "build" /\ pc' = "done" /\ ~query.process_id.some

\* children() is entered in this step, called on a query without a pid
ChildrenNoPid == ppc = "build" /\ ppc' # "build" /\ ~pquery.process_id.some

\* the call left the snapshot, its lock and the process table alone
SnapshotUntouched == UNCHANGED <<sys, lock, refreshed_at, os_procs>>

C27_WitnessNoSnapshot ==
    /\ pc = "done" /\ platform = "linux"
    /\ result = ConfigurationError /\ reads = <<>>
    /\ ppc = "done"
    /\ presult = ChildrenConfigurationError
    /\ ~sys.init

\* the builder call made in this step
Called == chain'.calls[Len(chain'.calls)]

\* the fields of the query a call of that name may change
FieldsOf(name) ==
    CASE name \in {"ip_v4_only", "ip_v6_only"} -> {"ipv4_addresses", "ipv6_addresses"}
      [] name \in {"tcp_only", "udp_only"} -> {"tcp_addresses", "udp_addresses"}
      [] name = "expect_min_num_ports" -> {"min_num_ports"}
      [] OTHER -> {"process_id"}

\* the argument of the last process_id or process_id_from_child call
LastPid ==
    LET at == {i \in 1..Len(chain.calls) :
                  chain.calls[i].name \in {"process_id", "process_id_from_child"}}
    IN  IF at = {} THEN None
        ELSE Some(chain.calls[CHOOSE i \in at : \A j \in at : j <= i].arg)

\* C28: in every PortQuery built from new() by builder calls at least one
\* address family and at least one protocol is enabled, a call changes no
\* field but its own (the family pair, the protocol pair, the minimum, the
\* pid), and the pid resolved is the one of the last process_id or
\* process_id_from_child call.
C28_FilterNeverEmpty ==
    /\ [](/\ chain.q.ipv4_addresses \/ chain.q.ipv6_addresses
          /\ chain.q.tcp_addresses \/ chain.q.udp_addresses
          /\ get_pid(chain.q) = LastPid)
    /\ [][\A f \in DOMAIN chain.q \ FieldsOf(Called.name) :
             chain'.q[f] = chain.q[f]]_vars

\* a chain over all four kinds of call: each axis narrowed to one, the
\* second pid resolved
C28_Witness ==
    /\ chain.calls = <<Call("process_id", 1), Call("tcp_only", 0),
                       Call("ip_v6_only", 0), Call("process_id_from_child", 2)>>
    /\ chain.q = [ipv4_addresses |-> FALSE, ipv6_addresses |-> TRUE,
                  tcp_addresses |-> TRUE, udp_addresses |-> FALSE,
                  process_id |-> Some(2), min_num_ports |-> None]

====
